---- MODULE Spec2Model ----
(***************************************************************************)
(* Model of the bulk retrieval pipeline of jasonthorsness/unlurker:        *)
(*   - MapCache            (hn/core, TTL map with two generations)         *)
(*   - WorkerPool / DoWork (hn/core/worker_pool.go)                        *)
(*   - BulkWorkerPoolGetter and BulkSingleFlightGetter (hn/core)           *)
(*   - ItemStream          (hn/item_stream.go)                             *)
(* Each component has its own specification over its own group of          *)
(* variables; the other groups stay at their constructed value.           *)
(***************************************************************************)
EXTENDS Integers, Sequences, FiniteSets, TLC

(***************************************************************************)
(* Bounds of the model.                                                    *)
(***************************************************************************)
\* MapCache: the ttl passed to NewMapCache, in clock ticks
TTL == 2
\* MapCache: how many ticks the injected clock advances
MaxTicks == 5
\* MapCache: how many Puts a run performs (each Put stores a fresh value)
MaxPuts == 3

\* WorkerPool: workChannelCapacity passed to NewWorkerPool
QueueCap == 1
\* WorkerPool: the longest works slice passed to DoWork
MaxWorks == 3
\* WorkerPool: capacity of the errCh passed to DoWork
ErrChCap == 1
\* BulkSingleFlightGetter: the longest keys slice passed to Get
MaxKeys == 2

\* keys of the caches and getters, payloads of the work items
Keys == {1, 2}
\* WorkerPool: the workers NewWorkerPool starts (numWorkers = 2)
Workers == {"w1", "w2"}
\* WorkerPool: the DoWork calls of a run, which may overlap
Calls == {1, 2}
\* BulkSingleFlightGetter: the Get calls of a run, which may overlap
GetCalls == {1, 2, 3}
\* every caller of DoWork, directly or through a bulk getter
AllCalls == Calls \cup GetCalls

\* ItemStream: maxInFlight passed to newItemStream
MaxInFlight == 2
\* ItemStream: the longest ids slice passed to a search
MaxIds == 3
\* ItemStream: the largest item id
MaxId == 2
\* ItemStream: the longest moreIds slice acc returns
MaxMore == 1

\* ItemFileCache: how many minutes the test clock advances
MaxAdvances == 4
\* ItemFileCache: the largest item ID
MaxFcId == 3
\* ItemFileCache: the longest ids slice passed to Get
MaxGetLen == 3
\* ItemFileCache: the longest items slice passed to Put
MaxPutLen == 2

\* cached getter stack: how many minutes the clock advances
MaxStackTicks == 3
\* cached getter stack: how many Gets a run makes
MaxStackGets == 2
\* cached getter stack: capacity of the put channel
PutChCap == 1
\* cached getter stack: putBatchSize of the file cache getter
PutBatchSize == 1

\* file cache getter: how many fetches the worker pool accepts in a run
MaxFetches == 3
\* file cache getter: putBatchSize
WriterBatchSize == 2
\* file cache getter: capacity of the put channel
WriterChCap == 2
\* file cache getter: how many times its Close is called
MaxCloses == 2

\* hn scan: the largest maxitem of the API
MaxScanItem == 8
\* hn scan: the largest --limit
MaxScanLimit == 9
\* hn scan: continueAtStart, from when no --continue-at is given
ContinueAtStart == -1
\* hn scan: math.MaxInt, of a 32-bit int
MathMaxInt == 2147483647
\* hn scan: scanWindowMultipliers
ScanWindowMultipliers == 3

\* GetActive: how many ids the corpus has below the seed ids
MaxBelow == 1
\* GetActive: the times of the items are 1..MaxTime
MaxTime == 2
\* GetActive: how far below an item its parent is at most
MaxParentGap == 2

\* ResourceGetter: the decoded values are 1..MaxResource
MaxResource == 2

\* ItemStream through Advanced(): how many ids the caller sends
MaxRawIds == 4

\* ItemStream: the item ids
ItemIds == 1..MaxId

\* sequences over S of length 1..n
SeqsUpTo(S, n) == UNION {[1..k -> S] : k \in 1..n}

\* number of occurrences of x in the sequence s
Count(s, x) == Cardinality({i \in DOMAIN s : s[i] = x})

VARIABLES
  \* ---- MapCache ----
  now,          \* clock.Now()
  lastPurge,    \* MapCache.lastPurge
  m,            \* MapCache.m : the two generations, index 0..1 -> map
  mi,           \* MapCache.mi
  mcFound,      \* found slice of the last MapCache.Get
  mcRemaining,  \* remaining slice of the last MapCache.Get
  mcKeys,       \* argument of the last MapCache.Get
  mcGetNow,     \* clock time the last MapCache.Get read
  mcPuts,       \* history: the Puts so far, value v -> [key, at] of Put number v
  mcGetPuts     \* history: how many Puts preceded the last MapCache.Get

VARIABLES
  \* ---- WorkerPool ----
  workCh,       \* WorkerPool.workCh: the queued workWrappers, oldest first
  wpClosed,     \* close(w.workCh) has run
  worker,       \* per worker: where workerLoop is, and the task it runs
  wpErrCh,      \* the errCh given to DoWork: the errors it holds
  closePc,      \* WorkerPool.Close: "none", "wait" (in wg.Wait) or "returned"
  dw,           \* per DoWork call: pc, works, loop index i, returned slice
                \* ret, and for the history after: the calls that had
                \* returned when it was entered
  accepted,     \* history: per DoWork call, how many items trySend accepted
  started,      \* history: task -> how often its callback was invoked
  finished,     \* history: task -> how often its callback returned or panicked
  errOffered,   \* history: how many errors were offered to errCh by trySend
  closeBusy,    \* history: Close was called with a task queued and one running
  queueCap      \* cap(w.workCh), the queueCap given to NewWorkerPool

wpVars == <<workCh, wpClosed, worker, wpErrCh, closePc, dw, accepted, started,
            finished, errOffered, closeBusy, queueCap>>

VARIABLES
  \* ---- BulkSingleFlightGetter over BulkWorkerPoolGetter ----
  pending,      \* BulkSingleFlightGetter.pending: key -> the dos registered
  sfKeys,       \* per Get call: the keys passed (<<>>: not called yet)
  sfPanics,     \* per Get call: whether its do callback panics
  sfDone,       \* history: per Get call, the (key, value) its do was invoked with
  sfCoalesced,  \* history: per Get call, keys it registered on a pending entry
                \* whose Get was still running or whose fetch was in flight
  sfRetried,    \* history: per Get call, its keys inner had rejected before it
  sfDoPanics    \* history: how many do invocations panicked

sfVars == <<pending, sfKeys, sfPanics, sfDone, sfCoalesced, sfRetried, sfDoPanics>>

VARIABLES
  \* ---- ItemStream ----
  idCh,         \* ItemStream.IDs: the ids sent and not yet read by the driver
  idChClosed,   \* close(idCh) has run
  resultCh,     \* ItemStream.Items: the values sent and not yet read
  resultCloses, \* how often close(resultCh) has run
  stErrCh,      \* the driver's errCh (capacity 1)
  drvPc,        \* where the driver goroutine of newItemStream is
  wg,           \* the driver's WaitGroup counter
  srch,         \* the search call: mode, ids, outstanding, all, pc, outerErr,
                \* errs (of searchDrain), ret (the error returned), and for the
                \* history waited: a result arrived ahead of the frontier
  accMore,      \* the acc of the search: id -> the moreIds it returns
  accStop,      \* the acc of the search: the id on which it returns keepGoing = false
  accErr,       \* the acc of the search: the id on which it returns an error
  ids0,         \* history: the ids argument of the search
  delivered,    \* history: the ids acc was invoked with, in order
  produced,     \* history: per id taken from idCh, the id, how many values
                \* were sent on resultCh for it, and whether G rejected it
  errValues     \* history: a value with Err set was sent on resultCh

stVars == <<idCh, idChClosed, resultCh, resultCloses, stErrCh, drvPc, wg, srch,
            accMore, accStop, accErr, ids0, delivered, produced, errValues>>

mcVars == <<now, lastPurge, m, mi, mcFound, mcRemaining, mcKeys, mcGetNow,
            mcPuts, mcGetPuts>>

VARIABLES
  \* ---- ItemFileCache ----
  fcNow,        \* clock.Now().Unix() of the cache's clock, in seconds
  fcRows,       \* table item: ID -> the row (refreshed, Time, value) or NoRow
  fcIds,        \* argument ids of the last ItemFileCache.Get
  fcDid,        \* did slice of the last Get: the positions of ids marked true
  fcDo,         \* the calls of do the last Get made, in order: id and data
  fcRemaining,  \* remaining slice the last Get returned
  fcErr,        \* whether the last Get returned an error
  fcGot         \* Get has returned and its caller still holds what it returned

fcVars == <<fcNow, fcRows, fcIds, fcDid, fcDo, fcRemaining, fcErr, fcGot>>

VARIABLES
  \* ---- the cached getter stack ----
  csPending,    \* BulkSingleFlightGetter.pending: key -> the Gets registered
  csInner,      \* the keys the worker pool accepted and has not fetched yet
  putCh,        \* BulkItemFileCacheGetter.ch: the buffers waiting for the writer
  csGets,       \* how many Gets were made
  csLast,       \* history: key -> the last value the single-flight callback got
  csGet,        \* history: the last Get: its keys, what MapCache found, the keys
                \* given to inner.Get, what ItemFileCache served, and csLast
                \* and the pending keys as they were when it was called
  csDeliver,    \* history: the last callback of the file cache getter: key,
                \* response, whether the put channel took it, how often the
                \* put-channel-full sink ran, the calls of do
  csPut         \* history: the last batch the writer gave to ItemFileCache.Put
                \* and whether Put returned an error

csVars == <<csPending, csInner, putCh, csGets, csLast, csGet, csDeliver, csPut>>

\* the groups of the components below the getters
VARIABLES
  \* ---- the context of the stream ----
  ctxCancelled, \* the ctx given to NewItemStream has been cancelled
  failures      \* history: an error that is no cancellation was produced: a
                \* failed fetch under a live ctx, a refusal of the pool,
                \* or errResultChannelFull

cxVars == <<ctxCancelled, failures>>

VARIABLES
  \* ---- Client.GetActive ----
  gaPc,         \* where GetActive is: "none", "send", "read", "returned"
  gaCorpus,     \* what the API holds for every id
  gaAfter,      \* argument activeAfter
  gaIds,        \* SearchUnordered: ids, the ids not sent yet
  gaOut,        \* SearchUnordered: the ids sent whose result was not read yet
  gaNext,       \* next
  largestKnownInactiveID,
  queuedAsParent,
  gaAll,        \* all: the ids of the items in it
  gaHanded,     \* history: the ids the accumulator returned as moreIDs, each
                \* with largestKnownInactiveID at that moment and whether it
                \* was in queuedAsParent
  gaParents     \* history: id -> how often getActiveTryEnqueueParent
                \* appended it to moreIDs

gaVars == <<gaPc, gaCorpus, gaAfter, gaIds, gaOut, gaNext, largestKnownInactiveID,
            queuedAsParent, gaAll, gaHanded, gaParents>>

VARIABLES
  \* ---- ResourceGetter ----
  rgRemote,     \* what the underlying getter serves for every path
  rgFetched,    \* history: path -> when a Get last fetched and cached it, and
                \* the value it fetched
  rgGet         \* history: the last Get: path, result before and after, the
                \* error, whether the getter was called, the clock, rgFetched
                \* and rgRemote of the path and the cache before it, and
                \* whether the path was found in the cache

rgVars == <<rgRemote, rgFetched, rgGet>>

VARIABLES
  \* ---- TestMapCache_Purging ----
  pgNow,        \* the test's clock, in seconds
  pgCache,      \* the test's cache: m, mi and lastPurge
  pgPc,         \* where the test is
  pgI,          \* the loop variable i
  pgFound,      \* f: the keys of the found slice of the last Get
  pgRemaining,  \* nf: the remaining slice of the last Get
  pgOs,         \* os
  pgNs          \* ns

pgVars == <<pgNow, pgCache, pgPc, pgI, pgFound, pgRemaining, pgOs, pgNs>>

VARIABLES
  \* ---- BulkWorkerPoolGetter ----
  bgOutcome,    \* history: task -> what the underlying getter did for its key
  bgDo,         \* history: task -> the values do was invoked with, in order
  bgWorker      \* history: per worker, whether a getter has failed on it
                \* ("failed") and whether it finished a task after that
                \* ("resumed")

bgVars == <<bgOutcome, bgDo, bgWorker>>

VARIABLES
  \* ---- BulkItemFileCacheGetter, its writer and Close ----
  fgCh,         \* g.ch: the buffers waiting for the writer
  fgChState,    \* g.ch is "open", "closed" (close(g.ch) ran) or "nil"
  fgWriter,     \* the goroutine of put: "run" or "exited"
  fgClose,      \* Client.Close: "none", "wait" (in g.wg.Wait of the getter's
                \* Close), "getter", "cache", "returned"
  fgCloses,     \* how many calls of the getter's Close have returned
  fgInner,      \* key -> the fetches the worker pool accepted and has not
                \* finished
  fgFetches,    \* how many fetches the worker pool has accepted
  fgAccepted,   \* history: the buffers the put channel accepted, in order
  fgPuts,       \* history: the batches given to ItemFileCache.Put, in order
  fgPut,        \* history: the last Put: its items and whether it failed
  fgQueued,     \* history: how many buffers waited when close(g.ch) ran
  fgLost        \* history: how many callbacks panicked in the send on the
                \* closed put channel, so that do was not called

fgVars == <<fgCh, fgChState, fgWriter, fgClose, fgCloses, fgInner, fgFetches,
            fgAccepted, fgPuts, fgPut, fgQueued, fgLost>>

VARIABLES
  \* ---- MapCache.Put called from several goroutines ----
  cpPut         \* per caller of Put: where it is ("idle", or "lock": it has
                \* read the clock and waits for c.mu), its key and the time
                \* it read

cpVars == <<cpPut>>

VARIABLES
  \* ---- hn scan ----
  scPc,         \* "none", "run" (in SearchOrdered of runScan) or "returned"
  scArgs,       \* the flags: limit, continueAt, ascending; and maxItem
  scFrom,       \* from of runScan: the next id to enqueue
  scTo,         \* to of runScan
  scRemaining,  \* remaining of runScan
  scIds,        \* the ids SearchOrdered has still to give to the accumulator
  scWritten     \* the ids of the items written, in order

scVars == <<scPc, scArgs, scFrom, scTo, scRemaining, scIds, scWritten>>

extVars == <<fcVars, csVars, cxVars, gaVars, rgVars, pgVars, bgVars, fgVars, cpVars,
             scVars>>

vars == <<mcVars, wpVars, sfVars, stVars, extVars>>

(***************************************************************************)
(* MapCache                                                                *)
(***************************************************************************)
\* time.Time{} is year 1; every clock the program uses is far later than
\* ttl after it.  Times are counted from time.Time{}.
ZeroTime == 0
ClockStart == TTL + 1

EmptyMap == [k \in {} |-> 0]

MapCache_old == m[mi]

MapCache_new == m[(mi + 1) % 2]

ExpiredOffByOne(t, added) == t - added > TTL + 1
\* now.Sub(e.added) > c.ttl
Expired(t, added) == t - added > TTL

\* no entry: the key is in neither generation
NoEntry == [added |-> ZeroTime - 1, value |-> 0]

\* MapCache.get, the lookup: the entry of the new generation, else that
\* of the old one
MapCache_entry(new, old, k) ==
  IF k \in DOMAIN new THEN new[k]
  ELSE IF k \in DOMAIN old THEN old[k]
  ELSE NoEntry

\* MapCache.get, the result: the entry e found, unless it is expired
MapCache_result(e, expired) ==
  IF e = NoEntry \/ expired THEN [ok |-> FALSE, value |-> 0]
  ELSE [ok |-> TRUE, value |-> e.value]

\* a get that looks into the old generation before the new one
MapCache_getOldFirst(t, k) ==
  LET e == MapCache_entry(MapCache_old, MapCache_new, k)
  IN MapCache_result(e, Expired(t, e.added))

\* MapCache.get of the cache of the variables m and mi, whose ttl is TTL
MapCache_get(t, k) ==
  LET e == MapCache_entry(MapCache_new, MapCache_old, k)
  IN MapCache_result(e, Expired(t, e.added))

\* the found slice of MapCache.Get(keys): input order kept
RECURSIVE MapCache_GetFound(_, _)
MapCache_GetFound(t, keys) ==
  IF keys = <<>> THEN <<>>
  ELSE LET r == MapCache_get(t, Head(keys))
       IN (IF r.ok THEN <<[Key |-> Head(keys), Value |-> r.value]>> ELSE <<>>)
          \o MapCache_GetFound(t, Tail(keys))

\* the remaining slice of MapCache.Get(keys): input order kept
RECURSIVE MapCache_GetRemaining(_, _)
MapCache_GetRemaining(t, keys) ==
  IF keys = <<>> THEN <<>>
  ELSE (IF MapCache_get(t, Head(keys)).ok THEN <<>> ELSE <<Head(keys)>>)
       \o MapCache_GetRemaining(t, Tail(keys))

\* the map f with key k set to e
MapSet(f, k, e) == [x \in DOMAIN f \cup {k} |-> IF x = k THEN e ELSE f[x]]

MCInit ==
  /\ now = ClockStart
  /\ lastPurge = ZeroTime
  /\ m = [i \in 0..1 |-> EmptyMap]
  /\ mi = 0
  /\ mcFound = <<>>
  /\ mcRemaining = <<>>
  /\ mcKeys = <<>>
  /\ mcGetNow = ClockStart
  /\ mcPuts = <<>>
  /\ mcGetPuts = 0

\* testClock.Advance
ClockAdvance ==
  /\ now < ClockStart + MaxTicks
  /\ now' = now + 1
  /\ UNCHANGED <<lastPurge, m, mi, mcFound, mcRemaining, mcKeys, mcGetNow,
                 mcPuts, mcGetPuts>>
  /\ UNCHANGED <<wpVars, sfVars, stVars, extVars>>

RotateDueOneLater(t, lp) == t - lp > TTL + 1
\* now.Sub(c.lastPurge) > c.ttl
RotateDue(t, lp) == t - lp > TTL

\* the body of MapCache.Put(k, v) at clock time t on the cache c (its m, mi
\* and lastPurge): store in the new generation, then rotate when the last
\* rotation is more than ttl ago (due)
MapCache_putWith(c, due, k, v, t) ==
  LET ni == (c.mi + 1) % 2
      stored == [c.m EXCEPT ![ni] = MapSet(c.m[ni], k, [added |-> t, value |-> v])]
  IN IF due
       THEN [m |-> [stored EXCEPT ![c.mi] = EmptyMap],
             mi |-> (c.mi + 1) % 2,
             lastPurge |-> t]
       ELSE [m |-> stored, mi |-> c.mi, lastPurge |-> c.lastPurge]

\* the body of MapCache.Put of a cache whose ttl is TTL
MapCache_put(c, k, v, t) ==
  MapCache_putWith(c, RotateDue(t, c.lastPurge), k, v, t)

\* MapCache.Put(k, v); v is the number of this Put
MapCache_Put(k) ==
  /\ Len(mcPuts) < MaxPuts
  /\ LET c == MapCache_put([m |-> m, mi |-> mi, lastPurge |-> lastPurge],
                           k, Len(mcPuts) + 1, now)
     IN /\ m' = c.m
        /\ mi' = c.mi
        /\ lastPurge' = c.lastPurge
  /\ mcPuts' = Append(mcPuts, [key |-> k, at |-> now])
  /\ UNCHANGED <<now, mcFound, mcRemaining, mcKeys, mcGetNow, mcGetPuts>>
  /\ UNCHANGED <<wpVars, sfVars, stVars, extVars>>

\* MapCache.Get(keys)
MapCache_Get(keys) ==
  /\ mcFound' = MapCache_GetFound(now, keys)
  /\ mcRemaining' = MapCache_GetRemaining(now, keys)
  /\ mcKeys' = keys
  /\ mcGetNow' = now
  /\ mcGetPuts' = Len(mcPuts)
  /\ UNCHANGED <<now, lastPurge, m, mi, mcPuts>>
  /\ UNCHANGED <<wpVars, sfVars, stVars, extVars>>

\* the goroutines that call Put
Putters == {"p1", "p2"}

CPInit == cpPut = [p \in Putters |-> [pc |-> "idle", k |-> 0, now |-> ZeroTime]]

\* MapCache.Put(k, v), first statement: now := c.clock.Now(), read before
\* c.mu.Lock()
MapCache_PutReadClock(p, k) ==
  /\ cpPut[p].pc = "idle"
  /\ Len(mcPuts) + Cardinality({q \in Putters : cpPut[q].pc = "lock"}) < MaxPuts
  /\ cpPut' = [cpPut EXCEPT ![p] = [pc |-> "lock", k |-> k, now |-> now]]
  /\ UNCHANGED mcVars
  /\ UNCHANGED <<wpVars, sfVars, stVars, fcVars, csVars, cxVars, gaVars, rgVars,
                 pgVars, bgVars, fgVars, scVars>>

\* MapCache.Put(k, v), from c.mu.Lock() to the deferred Unlock, with the
\* time read before the lock; v is the number of this Put
MapCache_PutLocked(p) ==
  /\ cpPut[p].pc = "lock"
  /\ LET c == MapCache_put([m |-> m, mi |-> mi, lastPurge |-> lastPurge],
                           cpPut[p].k, Len(mcPuts) + 1, cpPut[p].now)
     IN /\ m' = c.m
        /\ mi' = c.mi
        /\ lastPurge' = c.lastPurge
  /\ mcPuts' = Append(mcPuts, [key |-> cpPut[p].k, at |-> cpPut[p].now])
  /\ cpPut' = [cpPut EXCEPT ![p] = [pc |-> "idle", k |-> 0, now |-> ZeroTime]]
  /\ UNCHANGED <<now, mcFound, mcRemaining, mcKeys, mcGetNow, mcGetPuts>>
  /\ UNCHANGED <<wpVars, sfVars, stVars, fcVars, csVars, cxVars, gaVars, rgVars,
                 pgVars, bgVars, fgVars, scVars>>

CPNext ==
  \/ ClockAdvance
  \/ \E p \in Putters : \E k \in Keys : MapCache_PutReadClock(p, k)
  \/ \E p \in Putters : MapCache_PutLocked(p)

MCNext ==
  \/ ClockAdvance
  \/ \E k \in Keys : MapCache_Put(k)
  \/ \E keys \in SeqsUpTo(Keys, 2) : MapCache_Get(keys)

(***************************************************************************)
(* WorkerPool and DoWork (hn/core/worker_pool.go)                          *)
(***************************************************************************)
\* a task is one workWrapper: item ix of DoWork call c, with its payload
MaxTask == IF MaxWorks > MaxInFlight THEN MaxWorks ELSE MaxInFlight

TaskIds == AllCalls \X (1..MaxTask)

NoTask == [c |-> 0, ix |-> 0, work |-> 0]

TrySendOverCap(ch, cap, v) ==
  IF Len(ch) <= cap THEN [ok |-> TRUE, ch |-> Append(ch, v)]
                    ELSE [ok |-> FALSE, ch |-> ch]
TrySendReadyWhenRoom(ch, cap) == Len(ch) < cap
\* trySend never waits: its select has a default case
TrySendReady(ch, cap) == TRUE

\* ch <- v waits until the channel of capacity cap has room
SendReady(ch, cap) == Len(ch) < cap

\* trySend: a select with a default, on a channel of capacity cap
TrySend(ch, cap, v) ==
  IF Len(ch) < cap THEN [ok |-> TRUE, ch |-> Append(ch, v)]
                   ELSE [ok |-> FALSE, ch |-> ch]

DoWorkTailSkipsRefused(works, i) == SubSeq(works, i + 1, Len(works))
\* return works[i:]
DoWorkTail(works, i) == SubSeq(works, i, Len(works))

\* the do callback given to DoWork: the one of the model panics on payload 2
DoPanics(work) == work = 2

RecvClosedUndrained == wpClosed
\* r, ok := <-w.workCh yields !ok: the channel is closed and drained
RecvClosed == wpClosed /\ workCh = <<>>

\* the DoWork calls that have returned
CallsReturned == {c \in AllCalls : dw[c].pc = "done"}

\* NewWorkerPool(numWorkers, cap): the workers start in workerLoop, nothing
\* is queued
NewWorkerPool(cap) ==
  /\ queueCap = cap
  /\ workCh = <<>>
  /\ wpClosed = FALSE
  /\ worker = [w \in Workers |-> [pc |-> "recv", task |-> NoTask]]
  /\ wpErrCh = <<>>
  /\ closePc = "none"
  /\ dw = [c \in AllCalls |-> [pc |-> "idle", works |-> <<>>, i |-> 1, ret |-> <<>>,
                            after |-> {}]]
  /\ accepted = [c \in AllCalls |-> 0]
  /\ started = [t \in TaskIds |-> 0]
  /\ finished = [t \in TaskIds |-> 0]
  /\ errOffered = 0
  /\ closeBusy = FALSE

WPInit == NewWorkerPool(QueueCap)

\* the pool built with a queue of QueueCap + 1
WPQInit == NewWorkerPool(QueueCap + 1)

\* a caller enters DoWork(ctx, w, errCh, works, do).  Calls are made before
\* Close: a send on the closed workCh panics.
DoWorkCall(c, works) ==
  /\ closePc = "none"
  /\ dw[c].pc = "idle"
  /\ IF c = 1 THEN TRUE ELSE dw[c - 1].pc # "idle"
  /\ dw' = [dw EXCEPT ![c] = [pc |-> "send", works |-> works, i |-> 1, ret |-> <<>>,
                              after |-> CallsReturned]]
  /\ UNCHANGED <<workCh, wpClosed, worker, wpErrCh, closePc, accepted, started,
                 finished, errOffered, closeBusy, queueCap>>
  /\ UNCHANGED <<mcVars, sfVars, stVars, extVars>>

\* one iteration of DoWork's loop: trySend of works[i]; a refusal returns
\* works[i:], the last accepted item returns nil
DoWorkSend(c) ==
  /\ dw[c].pc = "send"
  /\ TrySendReady(workCh, queueCap)
  /\ LET d == dw[c]
         t == [c |-> c, ix |-> d.i, work |-> d.works[d.i]]
         r == TrySend(workCh, queueCap, t)
     IN IF r.ok
          THEN /\ workCh' = r.ch
               /\ accepted' = [accepted EXCEPT ![c] = @ + 1]
               /\ dw' = [dw EXCEPT ![c].i = d.i + 1,
                                   ![c].pc = IF d.i = Len(d.works) THEN "done" ELSE "send"]
          ELSE /\ dw' = [dw EXCEPT ![c].ret = DoWorkTail(d.works, d.i),
                                   ![c].pc = "done"]
               /\ UNCHANGED <<workCh, accepted>>
  /\ UNCHANGED <<wpClosed, worker, wpErrCh, closePc, started, finished,
                 errOffered, closeBusy, queueCap>>
  /\ UNCHANGED <<mcVars, sfVars, stVars, extVars>>

\* a receive that takes the task queued last
ReceiveNewest(ch) == [v |-> ch[Len(ch)], ch |-> SubSeq(ch, 1, Len(ch) - 1)]

\* <-ch on a channel that holds values: the oldest one is taken
Receive(ch) == [v |-> Head(ch), ch |-> Tail(ch)]

\* workerLoop: r, ok := <-w.workCh with ok; workerLoopInner calls do
WorkerRecv(w) ==
  /\ worker[w].pc = "recv"
  /\ workCh # <<>>
  /\ LET t == Receive(workCh).v
     IN /\ worker' = [worker EXCEPT ![w] = [pc |-> "run", task |-> t]]
        /\ started' = [started EXCEPT ![<<t.c, t.ix>>] = @ + 1]
  /\ workCh' = Receive(workCh).ch
  /\ UNCHANGED <<wpClosed, wpErrCh, closePc, dw, accepted, finished,
                 errOffered, closeBusy, queueCap>>
  /\ UNCHANGED <<mcVars, sfVars, stVars, extVars>>

\* a worker whose goroutine dies with the panic of do
WorkerLoopUnrecovered(panicked) == IF panicked THEN "dead" ELSE "recv"

\* workerLoopInner returns to workerLoop, also when do panicked: the
\* deferred function recovers, and the loop receives again
WorkerLoopAfter(panicked) == "recv"

\* workerLoopInner: do returns, or panics and the deferred recover offers
\* ErrDoPanic to errCh with trySend
WorkerDone(w) ==
  /\ worker[w].pc = "run"
  /\ LET t == worker[w].task
     IN /\ finished' = [finished EXCEPT ![<<t.c, t.ix>>] = @ + 1]
        /\ IF DoPanics(t.work)
             THEN /\ wpErrCh' = TrySend(wpErrCh, ErrChCap, "ErrDoPanic").ch
                  /\ errOffered' = errOffered + 1
             ELSE UNCHANGED <<wpErrCh, errOffered>>
  /\ worker' = [worker EXCEPT ![w] = [pc |-> WorkerLoopAfter(DoPanics(worker[w].task.work)),
                                   task |-> NoTask]]
  /\ UNCHANGED <<workCh, wpClosed, closePc, dw, accepted, started, closeBusy, queueCap>>
  /\ UNCHANGED <<mcVars, sfVars, stVars, extVars>>

\* workerLoop: the receive yields !ok, the loop breaks, wg.Done runs
WorkerExit(w) ==
  /\ worker[w].pc = "recv"
  /\ RecvClosed
  /\ worker' = [worker EXCEPT ![w].pc = "exit"]
  /\ UNCHANGED <<workCh, wpClosed, wpErrCh, closePc, dw, accepted, started,
                 finished, errOffered, closeBusy, queueCap>>
  /\ UNCHANGED <<mcVars, sfVars, stVars, extVars>>

\* WorkerPool.Close: close(w.workCh), then wait in wg.Wait
CloseBegin ==
  /\ closePc = "none"
  /\ \A c \in AllCalls : dw[c].pc # "send"
  /\ wpClosed' = TRUE
  /\ closePc' = "wait"
  /\ closeBusy' = (workCh # <<>> /\ \E w \in Workers : worker[w].pc = "run")
  /\ UNCHANGED <<workCh, worker, wpErrCh, dw, accepted, started, finished,
                 errOffered, queueCap>>
  /\ UNCHANGED <<mcVars, sfVars, stVars, extVars>>

\* WorkerPool.Close: wg.Wait returns once every worker ran wg.Done
CloseReturn ==
  /\ closePc = "wait"
  /\ \A w \in Workers : worker[w].pc = "exit"
  /\ closePc' = "returned"
  /\ UNCHANGED <<workCh, wpClosed, worker, wpErrCh, dw, accepted, started,
                 finished, errOffered, closeBusy, queueCap>>
  /\ UNCHANGED <<mcVars, sfVars, stVars, extVars>>

WPNext ==
  \/ \E c \in Calls : \E works \in SeqsUpTo(Keys, MaxWorks) : DoWorkCall(c, works)
  \/ \E c \in Calls : DoWorkSend(c)
  \/ \E w \in Workers : WorkerRecv(w)
  \/ \E w \in Workers : WorkerDone(w)
  \/ \E w \in Workers : WorkerExit(w)
  \/ CloseBegin
  \/ CloseReturn

(***************************************************************************)
(* BulkWorkerPoolGetter (hn/core/bulk_worker_pool_getter.go) on its own,   *)
(* built as NewBulkWorkerPoolGetter(workerPool, getter,                    *)
(* WrapErrorInReadCloser)                                                  *)
(***************************************************************************)
\* what g.Get(ctx, key) can do
GetterOutcomes == {"value", "error", "panic"}

NoError == "nil"

\* safeRunGetter: the getter's value, its error wrapped as "getter failed",
\* or a recovered panic as ErrGetterPanic
SafeRunGetter(key, outcome) ==
  IF outcome = "value" THEN [result |-> [val |-> key, err |-> NoError], err |-> NoError]
  ELSE IF outcome = "error" THEN [result |-> [val |-> 0, err |-> NoError],
                                  err |-> "getter failed"]
  ELSE [result |-> [val |-> 0, err |-> NoError], err |-> "ErrGetterPanic"]

\* a wrapError that fails with the error it was given
WrapErrorFails(err) == [result |-> [val |-> 0, err |-> NoError], err |-> err]

\* WrapErrorInReadCloser: a reader whose Read returns err, and a nil error
WrapErrorInReadCloser(err) == [result |-> [val |-> 0, err |-> err], err |-> NoError]

\* the callback BulkWorkerPoolGetter.Get gives to DoWork, up to the call
\* of do: the value do gets, or the error sent on errCh instead
GetterCallback(key, outcome) ==
  LET r == SafeRunGetter(key, outcome)
  IN IF r.err # NoError
       THEN LET w == WrapErrorInReadCloser(r.err)
            IN IF w.err # NoError THEN [do |-> FALSE, result |-> w.result, err |-> w.err]
               ELSE [do |-> TRUE, result |-> w.result, err |-> NoError]
       ELSE [do |-> TRUE, result |-> r.result, err |-> NoError]

BGInit ==
  /\ bgOutcome = [t \in TaskIds |-> "none"]
  /\ bgDo = [t \in TaskIds |-> <<>>]
  /\ bgWorker = [w \in Workers |-> "fresh"]

\* a worker finishes a task of BulkWorkerPoolGetter.Get: safeRunGetter,
\* wrapError on an error, and do (which returns); or the blocking send on
\* errCh when wrapError itself fails
BulkWorkerDone(w, outcome) ==
  /\ worker[w].pc = "run"
  /\ LET t == worker[w].task
         id == <<t.c, t.ix>>
         r == GetterCallback(t.work, outcome)
     IN /\ r.do \/ SendReady(wpErrCh, ErrChCap)
        /\ bgOutcome' = [bgOutcome EXCEPT ![id] = outcome]
        /\ bgDo' = IF r.do THEN [bgDo EXCEPT ![id] = Append(@, r.result)] ELSE bgDo
        /\ wpErrCh' = IF r.do THEN wpErrCh ELSE Append(wpErrCh, r.err)
        /\ bgWorker' = [bgWorker EXCEPT ![w] =
                          IF @ = "fresh"
                            THEN (IF outcome = "value" THEN "fresh" ELSE "failed")
                            ELSE "resumed"]
        /\ finished' = [finished EXCEPT ![id] = @ + 1]
  /\ worker' = [worker EXCEPT ![w] = [pc |-> "recv", task |-> NoTask]]
  /\ UNCHANGED <<workCh, wpClosed, closePc, dw, accepted, started, errOffered,
                 closeBusy, queueCap>>
  /\ UNCHANGED <<mcVars, sfVars, stVars, fcVars, csVars, cxVars, gaVars, rgVars,
                 pgVars, fgVars, cpVars, scVars>>

\* BulkWorkerPoolGetter.Get calls enter DoWork with their keys, the workers
\* run the callbacks
BGNext ==
  \/ \E c \in Calls : \E keys \in SeqsUpTo(Keys, MaxKeys) : DoWorkCall(c, keys)
  \/ \E c \in Calls : DoWorkSend(c)
  \/ \E w \in Workers : WorkerRecv(w)
  \/ \E w \in Workers : \E outcome \in GetterOutcomes : BulkWorkerDone(w, outcome)

(***************************************************************************)
(* BulkWorkerPoolGetter (hn/core/bulk_worker_pool_getter.go) and           *)
(* BulkSingleFlightGetter (hn/core/bulk_single_flight_getter.go), built    *)
(* as NewBulkSingleFlightGetter(inner, nil, nil): no MapCache.             *)
(***************************************************************************)
\* addPending, one key: register do c on the pending entry of k, or create
\* the entry and keep k for inner.Get
AddPendingKey(st, k, c) ==
  IF k \in DOMAIN st.pending
    THEN [pending |-> MapSet(st.pending, k, Append(st.pending[k], c)),
          remaining |-> st.remaining]
    ELSE [pending |-> MapSet(st.pending, k, <<c>>),
          remaining |-> Append(st.remaining, k)]

\* addPending(keys, do), under g.mu
RECURSIVE AddPending(_, _, _)
AddPending(st, keys, c) ==
  IF keys = <<>> THEN st
  ELSE AddPending(AddPendingKey(st, Head(keys), c), Tail(keys), c)

\* removePending(key): the dos registered for key
RemovePendingDos(k) == IF k \in DOMAIN pending THEN pending[k] ELSE <<>>

\* removePending(key): delete(g.pending, key)
RemovePendingMap(k) == [x \in DOMAIN pending \ {k} |-> pending[x]]

\* the loop over dos: err = errors.Join(g.safeRunDo(do, key, value)) keeps
\* the error of the last do only; err # nil makes the wrapper panic
RunDosPanics(dos) == dos # <<>> /\ sfPanics[dos[Len(dos)]]

\* the fetch of key k is queued or running
InFlight(k) ==
  \/ \E j \in DOMAIN workCh : workCh[j].work = k
  \/ \E w \in Workers : worker[w].pc = "run" /\ worker[w].task.work = k

\* the keys inner.Get has returned as rejected so far
RejectedKeys ==
  {k \in Keys : \E c \in GetCalls :
     dw[c].pc = "done" /\ \E j \in DOMAIN dw[c].ret : dw[c].ret[j] = k}

\* NewBulkSingleFlightGetter
SFInit ==
  /\ pending = EmptyMap
  /\ sfKeys = [c \in GetCalls |-> <<>>]
  /\ sfPanics = [c \in GetCalls |-> FALSE]
  /\ sfDone = [c \in GetCalls |-> <<>>]
  /\ sfCoalesced = [c \in GetCalls |-> {}]
  /\ sfRetried = [c \in GetCalls |-> {}]
  /\ sfDoPanics = 0

\* BulkSingleFlightGetter.Get(ctx, keys, do) up to the call of inner.Get:
\* addPending, the early return when nothing remains, then
\* BulkWorkerPoolGetter.Get entering DoWork with the remaining keys
SFGet(c, keys, panics) ==
  /\ sfKeys[c] = <<>>
  /\ IF c = 1 THEN TRUE ELSE sfKeys[c - 1] # <<>>
  /\ LET r == AddPending([pending |-> pending, remaining |-> <<>>], keys, c)
         keyset == {keys[j] : j \in DOMAIN keys}
     IN /\ pending' = r.pending
        /\ dw' = [dw EXCEPT ![c] =
                    [pc |-> IF r.remaining = <<>> THEN "done" ELSE "send",
                     works |-> r.remaining, i |-> 1, ret |-> <<>>,
                     after |-> CallsReturned]]
        /\ sfCoalesced' = [sfCoalesced EXCEPT ![c] =
             {k \in keyset :
                /\ k \in DOMAIN pending
                /\ \/ InFlight(k)
                   \/ \E o \in GetCalls :
                        /\ dw[o].pc = "send"
                        /\ \E j \in DOMAIN dw[o].works :
                             j >= dw[o].i /\ dw[o].works[j] = k}]
        /\ sfRetried' = [sfRetried EXCEPT ![c] = keyset \cap RejectedKeys]
  /\ sfKeys' = [sfKeys EXCEPT ![c] = keys]
  /\ sfPanics' = [sfPanics EXCEPT ![c] = panics]
  /\ UNCHANGED <<sfDone, sfDoPanics>>
  /\ UNCHANGED <<workCh, wpClosed, worker, wpErrCh, closePc, accepted, started,
                 finished, errOffered, closeBusy, queueCap>>
  /\ UNCHANGED <<mcVars, stVars, extVars>>

\* the invocations a list of dos adds to the history, all with value v
RECURSIVE InvokeAll(_, _, _, _)
InvokeAll(log, dos, k, v) ==
  IF dos = <<>> THEN log
  ELSE InvokeAll([log EXCEPT ![Head(dos)] = Append(@, [key |-> k, value |-> v])],
                 Tail(dos), k, v)

\* a worker finishes a task of BulkWorkerPoolGetter.Get: safeRunGetter has
\* fetched the key (the value is named after the fetch), and do, the
\* wrapper of BulkSingleFlightGetter.Get, runs: removePending, every do
\* under safeRunDo, panic(err); workerLoopInner recovers that panic and
\* offers ErrDoPanic on errCh
SFWorkerDone(w) ==
  /\ worker[w].pc = "run"
  /\ LET t == worker[w].task
         v == <<t.c, t.ix>>
         dos == RemovePendingDos(t.work)
     IN /\ pending' = RemovePendingMap(t.work)
        /\ sfDone' = InvokeAll(sfDone, dos, t.work, v)
        /\ sfDoPanics' = sfDoPanics
                          + Cardinality({j \in DOMAIN dos : sfPanics[dos[j]]})
        /\ finished' = [finished EXCEPT ![<<t.c, t.ix>>] = @ + 1]
        /\ IF RunDosPanics(dos)
             THEN /\ wpErrCh' = TrySend(wpErrCh, ErrChCap, "ErrDoPanic").ch
                  /\ errOffered' = errOffered + 1
             ELSE UNCHANGED <<wpErrCh, errOffered>>
  /\ worker' = [worker EXCEPT ![w] = [pc |-> "recv", task |-> NoTask]]
  /\ UNCHANGED <<workCh, wpClosed, closePc, dw, accepted, started, closeBusy, queueCap>>
  /\ UNCHANGED <<sfKeys, sfPanics, sfCoalesced, sfRetried>>
  /\ UNCHANGED <<mcVars, stVars, extVars>>

SFNext ==
  \/ \E c \in GetCalls : \E keys \in SeqsUpTo(Keys, MaxKeys) :
       \E panics \in BOOLEAN : SFGet(c, keys, panics)
  \/ \E c \in GetCalls : DoWorkSend(c)
  \/ \E w \in Workers : WorkerRecv(w)
  \/ \E w \in Workers : SFWorkerDone(w)

(***************************************************************************)
(* ItemStream (hn/item_stream.go), over the bulk getter of the raw item    *)
(* stream: a transform getter on BulkWorkerPoolGetter on the WorkerPool.   *)
(***************************************************************************)
\* the call of bulkItemGetter.Get the driver makes for each batch
DriverCall == 1

\* errCh := make(chan error, 1)
StreamErrChCap == 1

Min(a, b) == IF a < b THEN a ELSE b

Max(a, b) == IF a > b THEN a ELSE b

\* wrapError: the zero item, the error, ID 0
WrapError == [ID |-> 0, Err |-> TRUE]

\* baseGetter.Get under ctx: the outcomes (fetched or an error) the request
\* can have; a request made with a cancelled ctx fails
GetterResult(cancelled, fetched) == fetched => ~cancelled

\* the value the getter stack delivers for a fetched item
ItemValue(id) == [ID |-> id, Err |-> FALSE]

\* trySendSlice: send the elements of v one by one until one is refused
TrySendSlice(ch, cap, v) ==
  LET n == Min(Len(v), cap - Len(ch))
  IN [n |-> n, ch |-> ch \o SubSeq(v, 1, n)]

\* the acc callback of the search
AccKeepGoing(id) == id # accStop

AccMoreIds(id) == accMore[id]

\* acc returns a non-nil error
AccFails(id) == id = accErr

BatchContinuesOnStop(ok, err) == ~err
\* SearchUnordered: the condition ok && err == nil of the loop over items
BatchContinues(ok, err) == ok /\ ~err

\* the moreIds an acc can return: kids have larger ids than their parent
MoreChoices ==
  {f \in [ItemIds -> {<<>>} \cup SeqsUpTo(ItemIds, MaxMore)] :
     \A i \in ItemIds : \A j \in DOMAIN f[i] : f[i][j] > i}

UnorderedMoreIdsOnly(ids, outstanding) == Len(ids) > 0
\* SearchUnordered: the loop condition len(ids) > 0 || outstanding > 0
UnorderedMore(ids, outstanding) == Len(ids) > 0 \/ outstanding > 0

\* SearchUnordered: the loop over the items of one greedyRead
RECURSIVE UnorderedBatch(_, _)
UnorderedBatch(st, items) ==
  IF items = <<>> \/ ~BatchContinues(st.ok, st.err) THEN st
  ELSE LET item == Head(items)
       IN IF item.Err THEN [st EXCEPT !.err = TRUE]
          ELSE UnorderedBatch([ok |-> AccKeepGoing(item.ID),
                               err |-> AccFails(item.ID),
                               ids |-> st.ids \o AccMoreIds(item.ID),
                               delivered |-> Append(st.delivered, item.ID)],
                              Tail(items))

\* searchOrderedBatch, first loop: stage the items by id; an error value
\* ends the batch
RECURSIVE StageAll(_, _)
StageAll(st, items) ==
  IF items = <<>> THEN st
  ELSE IF Head(items).Err THEN [st EXCEPT !.err = TRUE]
  ELSE StageAll([st EXCEPT !.all = MapSet(st.all, Head(items).ID, Head(items))],
                Tail(items))

FrontierFromEnd(ids, consumed) == ids[Len(ids) - consumed]
\* searchOrderedBatch: id := ids[consumed]
Frontier(ids, consumed) == ids[consumed + 1]

\* searchOrderedBatch, second loop: hand the staged items to acc in the
\* order of ids, up to the first id that is not staged; an error of acc
\* ends the batch at once
RECURSIVE OrderedConsume(_, _)
OrderedConsume(st, ids) ==
  IF ~st.keep \/ st.consumed >= Len(ids) THEN st
  ELSE LET id == Frontier(ids, st.consumed)
       IN IF id \notin DOMAIN st.all THEN st
          ELSE LET item == st.all[id]
                   rest == [x \in DOMAIN st.all \ {id} |-> st.all[x]]
               IN IF AccFails(item.ID)
                    THEN [st EXCEPT !.all = rest, !.keep = FALSE, !.err = TRUE,
                                    !.delivered = Append(st.delivered, item.ID)]
                    ELSE OrderedConsume(
                           [all |-> rest,
                            consumed |-> st.consumed + 1,
                            keep |-> AccKeepGoing(item.ID),
                            err |-> FALSE,
                            new |-> st.new \o AccMoreIds(item.ID),
                            delivered |-> Append(st.delivered, item.ID)],
                           ids)

WaitDoneAtOnce(n) == TRUE
\* wg.Wait returns
WaitDone(n) == n = 0

NoSearch ==
  [mode |-> "none", ids |-> <<>>, outstanding |-> 0, all |-> EmptyMap,
   pc |-> "none", outerErr |-> FALSE, errs |-> FALSE, ret |-> "none",
   waited |-> FALSE]

\* no stream exists yet
STInit ==
  /\ idCh = <<>>
  /\ idChClosed = FALSE
  /\ resultCh = <<>>
  /\ resultCloses = 0
  /\ stErrCh = <<>>
  /\ drvPc = "none"
  /\ wg = 0
  /\ srch = NoSearch
  /\ accMore = [i \in ItemIds |-> <<>>]
  /\ accStop = 0
  /\ accErr = 0
  /\ ids0 = <<>>
  /\ delivered = <<>>
  /\ produced = <<>>
  /\ errValues = FALSE

\* newItemStream starts the driver, and SearchOrdered or SearchUnordered is
\* called on the stream with ids and acc
SearchStart(mode, ids, more, stop, fail) ==
  /\ srch.pc = "none"
  /\ srch' = [NoSearch EXCEPT !.mode = mode, !.ids = ids, !.pc = "send"]
  /\ drvPc' = "read"
  /\ accMore' = more
  /\ accStop' = stop
  /\ accErr' = fail
  /\ ids0' = ids
  /\ UNCHANGED <<idCh, idChClosed, resultCh, resultCloses, stErrCh, wg,
                 delivered, produced, errValues>>
  /\ UNCHANGED <<mcVars, wpVars, sfVars, extVars>>

\* a search that sends as if nothing were outstanding
ReadAheadWhole(outstanding) == MaxInFlight

\* maxReadAhead - outstanding: how many more ids the search may send
ReadAhead(outstanding) == MaxInFlight - outstanding

\* the head of the search loop: the loop condition and trySendSlice
ConsumerSend ==
  /\ srch.pc = "send"
  /\ IF srch.mode = "unordered"
       THEN IF ~UnorderedMore(srch.ids, srch.outstanding)
              THEN /\ srch' = [srch EXCEPT !.pc = "close"]
                   /\ UNCHANGED idCh
              ELSE LET lim == Min(Len(srch.ids), ReadAhead(srch.outstanding))
                       r == TrySendSlice(idCh, MaxInFlight, SubSeq(srch.ids, 1, lim))
                   IN /\ idCh' = r.ch
                      /\ srch' = [srch EXCEPT
                                    !.outstanding = @ + r.n,
                                    !.ids = SubSeq(srch.ids, r.n + 1, Len(srch.ids)),
                                    !.pc = "read"]
       ELSE IF Len(srch.ids) = 0
              THEN /\ srch' = [srch EXCEPT !.pc = "close"]
                   /\ UNCHANGED idCh
              ELSE LET end == Min(Len(srch.ids),
                                  srch.outstanding + ReadAhead(srch.outstanding))
                       r == TrySendSlice(idCh, MaxInFlight,
                                         SubSeq(srch.ids, srch.outstanding + 1, end))
                   IN /\ idCh' = r.ch
                      /\ srch' = [srch EXCEPT !.outstanding = @ + r.n, !.pc = "read"]
  /\ UNCHANGED <<idChClosed, resultCh, resultCloses, stErrCh, drvPc, wg, accMore,
                 accStop, accErr, ids0, delivered, produced, errValues>>
  /\ UNCHANGED <<mcVars, wpVars, sfVars, extVars>>

\* SearchUnordered: the body of the loop after greedyRead returned items
UnorderedStep(items) ==
  LET r == UnorderedBatch([ok |-> TRUE, err |-> FALSE, ids |-> srch.ids,
                           delivered |-> delivered], items)
  IN /\ delivered' = r.delivered
     /\ srch' = IF r.err
                  THEN [srch EXCEPT !.ids = r.ids, !.outerErr = TRUE, !.pc = "close"]
                ELSE IF ~r.ok
                  THEN [srch EXCEPT !.ids = r.ids, !.pc = "close"]
                ELSE [srch EXCEPT !.ids = r.ids,
                                  !.outstanding = @ - Len(items),
                                  !.pc = "send"]

\* SearchOrdered: searchOrderedBatch and the rest of the loop body
OrderedStep(items) ==
  LET sa == StageAll([all |-> srch.all, err |-> FALSE], items)
      r == OrderedConsume([all |-> sa.all, consumed |-> 0, keep |-> TRUE,
                           err |-> FALSE, new |-> <<>>, delivered |-> delivered],
                          srch.ids)
  IN IF sa.err
       THEN /\ srch' = [srch EXCEPT !.all = sa.all, !.outerErr = TRUE, !.pc = "close"]
            /\ UNCHANGED delivered
       ELSE /\ delivered' = r.delivered
            /\ srch' = IF r.err
                         THEN [srch EXCEPT !.all = r.all, !.outerErr = TRUE,
                                           !.pc = "close"]
                       ELSE IF ~r.keep
                         THEN [srch EXCEPT !.all = r.all, !.pc = "close"]
                         ELSE [srch EXCEPT
                                 !.all = r.all,
                                 !.waited = @ \/ r.all # EmptyMap,
                                 !.ids = SubSeq(srch.ids, r.consumed + 1, Len(srch.ids))
                                         \o r.new,
                                 !.outstanding = @ - r.consumed,
                                 !.pc = "send"]

\* greedyRead(resultCh, 0) in the search loop, and the loop body.  The
\* read blocks for the first value and takes what is there after it; j is
\* how many values had arrived when the read found the channel empty.
ConsumerRead(j) ==
  /\ srch.pc = "read"
  /\ IF resultCh = <<>>
       THEN /\ resultCloses > 0
            /\ j = 1
            /\ srch' = [srch EXCEPT !.pc = "close"]
            /\ UNCHANGED <<resultCh, delivered>>
       ELSE /\ j <= Len(resultCh)
            /\ resultCh' = SubSeq(resultCh, j + 1, Len(resultCh))
            /\ IF srch.mode = "unordered"
                 THEN UnorderedStep(SubSeq(resultCh, 1, j))
                 ELSE OrderedStep(SubSeq(resultCh, 1, j))
  /\ UNCHANGED <<idCh, idChClosed, resultCloses, stErrCh, drvPc, wg, accMore,
                 accStop, accErr, ids0, produced, errValues>>
  /\ UNCHANGED <<mcVars, wpVars, sfVars, extVars>>

\* close(idCh) after the search loop
ConsumerClose ==
  /\ srch.pc = "close"
  /\ idChClosed' = TRUE
  /\ srch' = [srch EXCEPT !.pc = "drain"]
  /\ UNCHANGED <<idCh, resultCh, resultCloses, stErrCh, drvPc, wg, accMore,
                 accStop, accErr, ids0, delivered, produced, errValues>>
  /\ UNCHANGED <<mcVars, wpVars, sfVars, extVars>>

\* searchDrain: range over resultCh until it is closed and empty, then
\* return the joined error
ConsumerDrain ==
  /\ srch.pc = "drain"
  /\ IF resultCh # <<>>
       THEN /\ resultCh' = Tail(resultCh)
            /\ srch' = [srch EXCEPT !.errs = @ \/ Head(resultCh).Err]
       ELSE /\ resultCloses > 0
            /\ srch' = [srch EXCEPT
                          !.ret = IF srch.outerErr \/ srch.errs THEN "error" ELSE "nil",
                          !.pc = "returned"]
            /\ UNCHANGED resultCh
  /\ UNCHANGED <<idCh, idChClosed, resultCloses, stErrCh, drvPc, wg, accMore,
                 accStop, accErr, ids0, delivered, produced, errValues>>
  /\ UNCHANGED <<mcVars, wpVars, sfVars, extVars>>

\* the driver: greedyRead(idCh, 0) returns j ids, wg.Add for each, and
\* bulkItemGetter.Get enters DoWork with them.  The payload of a work item
\* is the id and, for the history, its position among the ids taken.
DriverRead(j) ==
  /\ drvPc = "read"
  /\ j <= Len(idCh)
  /\ idCh' = SubSeq(idCh, j + 1, Len(idCh))
  /\ wg' = wg + j
  /\ produced' = produced \o [i \in 1..j |-> [id |-> idCh[i], n |-> 0, refused |-> FALSE]]
  /\ dw' = [dw EXCEPT ![DriverCall] =
              [pc |-> "send",
               works |-> [i \in 1..j |-> [id |-> idCh[i], n |-> Len(produced) + i]],
               i |-> 1, ret |-> <<>>, after |-> CallsReturned \ {DriverCall}]]
  /\ drvPc' = "get"
  /\ UNCHANGED <<idChClosed, resultCh, resultCloses, stErrCh, srch, accMore,
                 accStop, accErr, ids0, delivered, errValues>>
  /\ UNCHANGED <<workCh, wpClosed, worker, wpErrCh, closePc, accepted, started,
                 finished, errOffered, closeBusy, queueCap>>
  /\ UNCHANGED <<mcVars, sfVars, extVars>>

\* the driver: greedyRead(idCh, 0) yields !ok, the loop breaks
DriverBreak ==
  /\ drvPc = "read"
  /\ idCh = <<>>
  /\ idChClosed
  /\ drvPc' = "wait"
  /\ UNCHANGED <<idCh, idChClosed, resultCh, resultCloses, stErrCh, wg, srch,
                 accMore, accStop, accErr, ids0, delivered, produced, errValues>>
  /\ UNCHANGED <<mcVars, wpVars, sfVars, extVars>>

\* the driver: one iteration of the loop over the rejected ids: the
\* blocking send of the refusal value, and wg.Done
DriverRejected ==
  /\ drvPc = "get"
  /\ dw[DriverCall].pc = "done"
  /\ dw[DriverCall].ret # <<>>
  /\ SendReady(resultCh, MaxInFlight)
  /\ resultCh' = Append(resultCh, WrapError)
  /\ wg' = wg - 1
  /\ produced' = [produced EXCEPT ![Head(dw[DriverCall].ret).n].n = @ + 1,
                                  ![Head(dw[DriverCall].ret).n].refused = TRUE]
  /\ errValues' = TRUE
  /\ dw' = [dw EXCEPT ![DriverCall].ret = Tail(@)]
  /\ failures' = TRUE
  /\ UNCHANGED <<idCh, idChClosed, resultCloses, stErrCh, drvPc, srch, accMore,
                 accStop, accErr, ids0, delivered>>
  /\ UNCHANGED <<workCh, wpClosed, worker, wpErrCh, closePc, accepted, started,
                 finished, errOffered, closeBusy, queueCap>>
  /\ UNCHANGED <<mcVars, sfVars, fcVars, csVars, ctxCancelled, gaVars, rgVars, pgVars, bgVars, fgVars, cpVars, scVars>>

\* the driver: the rejected ids are done, back to greedyRead
DriverLoop ==
  /\ drvPc = "get"
  /\ dw[DriverCall].pc = "done"
  /\ dw[DriverCall].ret = <<>>
  /\ drvPc' = "read"
  /\ UNCHANGED <<idCh, idChClosed, resultCh, resultCloses, stErrCh, wg, srch,
                 accMore, accStop, accErr, ids0, delivered, produced, errValues>>
  /\ UNCHANGED <<mcVars, wpVars, sfVars, extVars>>

\* a worker finishes a task of the stream: the fetch yields the item
\* (fetched) or an error value, and the driver's do runs: trySend on
\* resultCh, else trySend of errResultChannelFull on errCh, and wg.Done.
\* Under a cancelled ctx the getter's request fails.
StreamWorkerDone(w, fetched) ==
  /\ worker[w].pc = "run"
  /\ TrySendReady(resultCh, MaxInFlight)
  /\ GetterResult(ctxCancelled, fetched)
  /\ LET t == worker[w].task
         v == IF fetched THEN ItemValue(t.work.id) ELSE WrapError
         r == TrySend(resultCh, MaxInFlight, v)
     IN /\ resultCh' = r.ch
        /\ IF r.ok
             THEN /\ produced' = [produced EXCEPT ![t.work.n].n = @ + 1]
                  /\ errValues' = (errValues \/ v.Err)
                  /\ UNCHANGED stErrCh
             ELSE /\ stErrCh' = TrySend(stErrCh, StreamErrChCap,
                                        "errResultChannelFull").ch
                  /\ UNCHANGED <<produced, errValues>>
        /\ finished' = [finished EXCEPT ![<<t.c, t.ix>>] = @ + 1]
        /\ failures' = (failures \/ ~r.ok \/ (~fetched /\ ~ctxCancelled))
  /\ wg' = wg - 1
  /\ worker' = [worker EXCEPT ![w] = [pc |-> "recv", task |-> NoTask]]
  /\ UNCHANGED <<idCh, idChClosed, resultCloses, drvPc, srch, accMore, accStop, accErr,
                 ids0, delivered>>
  /\ UNCHANGED <<workCh, wpClosed, wpErrCh, closePc, dw, accepted, started,
                 errOffered, closeBusy, queueCap>>
  /\ UNCHANGED <<mcVars, sfVars, fcVars, csVars, ctxCancelled, gaVars, rgVars, pgVars, bgVars, fgVars, cpVars, scVars>>

\* the driver: wg.Wait returns, close(errCh), the errors are joined and
\* sent (a blocking send) when there are any, and the deferred
\* close(resultCh) runs
DriverClose ==
  /\ drvPc = "wait"
  /\ WaitDone(wg)
  /\ stErrCh = <<>> \/ SendReady(resultCh, MaxInFlight)
  /\ IF stErrCh # <<>>
       THEN /\ resultCh' = Append(resultCh, WrapError)
            /\ errValues' = TRUE
       ELSE UNCHANGED <<resultCh, errValues>>
  /\ stErrCh' = <<>>
  /\ resultCloses' = resultCloses + 1
  /\ drvPc' = "closed"
  /\ UNCHANGED <<idCh, idChClosed, wg, srch, accMore, accStop, accErr, ids0, delivered,
                 produced>>
  /\ UNCHANGED <<mcVars, wpVars, sfVars, extVars>>

StreamDriver ==
  \/ \E j \in 1..MaxInFlight : DriverRead(j)
  \/ DriverBreak
  \/ DoWorkSend(DriverCall)
  \/ DriverRejected
  \/ DriverLoop
  \/ DriverClose

StreamWorkers ==
  \/ \E w \in Workers : WorkerRecv(w)
  \/ \E w \in Workers : \E fetched \in BOOLEAN : StreamWorkerDone(w, fetched)

StreamConsumer ==
  \/ ConsumerSend
  \/ \E j \in 1..MaxInFlight : ConsumerRead(j)
  \/ ConsumerClose
  \/ ConsumerDrain

STNext ==
  \/ \E mode \in {"ordered", "unordered"} : \E ids \in SeqsUpTo(ItemIds, MaxIds) :
       \E more \in MoreChoices : \E stop \in {0} \cup ItemIds :
         SearchStart(mode, ids, more, stop, 0)
  \/ StreamDriver
  \/ StreamWorkers
  \/ StreamConsumer

\* the stream under a search whose acc returns an error on some id
STAccNext ==
  \/ \E mode \in {"ordered", "unordered"} : \E ids \in SeqsUpTo(ItemIds, MaxIds) :
       \E more \in MoreChoices : \E stop \in {0} \cup ItemIds : \E fail \in ItemIds :
         SearchStart(mode, ids, more, stop, fail)
  \/ StreamDriver
  \/ StreamWorkers
  \/ StreamConsumer

\* the caller cancels the ctx it gave to the stream while its search runs
CtxCancel ==
  /\ srch.pc \in {"send", "read", "close", "drain"}
  /\ ~ctxCancelled
  /\ ctxCancelled' = TRUE
  /\ UNCHANGED failures
  /\ UNCHANGED <<mcVars, wpVars, sfVars, stVars, fcVars, csVars, gaVars, rgVars, pgVars, bgVars, fgVars, cpVars, scVars>>

STCancelNext ==
  \/ STNext
  \/ CtxCancel

(***************************************************************************)
(* ItemFileCache                                                           *)
(***************************************************************************)
\* clock.Advance(time.Minute), in seconds
Minute == 60
\* the staleIf the cache is configured with: refreshed < (:now - 150)
StaleAfter == 150
\* the "time" field of the stored items
ItemTime == 0

FcIds == 1..MaxFcId

\* the blobs handed to Put: the null literal, bytes that are not JSON, and
\* the JSON of an item with its "id" and "time"
NullBlob == [kind |-> "null", id |-> 0, time |-> 0]
BadBlob == [kind |-> "bad", id |-> 0, time |-> 0]
ItemBlob(id) == [kind |-> "item", id |-> id, time |-> ItemTime]
Blobs == {NullBlob, BadBlob} \cup {ItemBlob(id) : id \in FcIds}

StaleOneMinuteLater(row, t) == row.refreshed < t - StaleAfter - Minute

\* the staleIf expression evaluated on a row with :now = t
Stale(row, t) == row.refreshed < t - StaleAfter

\* the loop of Put that builds params: the (ID, refreshed, Time, value) of
\* every blob that is not the null literal
RECURSIVE PutParams(_, _)
PutParams(items, t) ==
  IF items = <<>> THEN <<>>
  ELSE LET e == Head(items)
           rest == PutParams(Tail(items), t)
       IN IF e = NullBlob THEN rest
          ELSE <<[ID |-> e.id, refreshed |-> t, Time |-> e.time, value |-> e]>>
               \o rest

\* an insert that leaves an existing row as it is
InsertOrIgnore(rows, id, row) == IF id \in DOMAIN rows THEN rows ELSE MapSet(rows, id, row)

\* INSERT OR REPLACE of one row: the row of id is replaced or created
Upsert(rows, id, row) == MapSet(rows, id, row)

\* INSERT OR REPLACE INTO item ... VALUES params
RECURSIVE InsertOrReplace(_, _)
InsertOrReplace(rows, params) ==
  IF params = <<>> THEN rows
  ELSE LET p == Head(params)
       IN InsertOrReplace(
            Upsert(rows, p.ID,
                   [refreshed |-> p.refreshed, Time |-> p.Time, value |-> p.value]),
            Tail(params))

IndicesFirstOnly(ids, id) ==
  {i \in DOMAIN ids : ids[i] = id /\ \A j \in 1..(i - 1) : ids[j] # id}

\* indices[id] of get: the positions of ids that hold id
Indices(ids, id) == {i \in DOMAIN ids : ids[i] = id}

\* SELECT ID, value FROM item WHERE ID IN (ids) AND NOT (staleIf): the IDs
\* of the rows the query returns
SelectIds(rows, ids, t) ==
  {id \in DOMAIN rows : Indices(ids, id) # {} /\ ~Stale(rows[id], t)}

\* the orders in which the query may return the rows of S
RowOrders(S) ==
  {o \in [1..Cardinality(S) -> S] : \A i, j \in DOMAIN o : o[i] = o[j] => i = j}

\* the loop of getRows over the rows in order o: the positions of did set to
\* true
GetRowsDid(o, ids) == UNION {Indices(ids, o[i]) : i \in DOMAIN o}

\* the loop of getRows over the rows in order o: the calls of do
RECURSIVE GetRowsDo(_, _, _)
GetRowsDo(o, ids, rows) ==
  IF o = <<>> THEN <<>>
  ELSE LET id == Head(o)
       IN [i \in 1..Cardinality(Indices(ids, id)) |->
             [id |-> id, data |-> rows[id].value]]
          \o GetRowsDo(Tail(o), ids, rows)

\* the loop of Get that collects the ids whose did is false
RECURSIVE GetRemaining(_, _, _)
GetRemaining(ids, did, i) ==
  IF i > Len(ids) THEN <<>>
  ELSE (IF i \in did THEN <<>> ELSE <<ids[i]>>) \o GetRemaining(ids, did, i + 1)

\* a Put that inserts the blobs that precede the one it fails on
PutRowsUpToBad(rows, items, t, execFails) ==
  LET bad == {i \in DOMAIN items : items[i] = BadBlob}
      n == IF bad = {} THEN Len(items)
           ELSE (CHOOSE i \in bad : \A j \in bad : i <= j) - 1
      params == PutParams(SubSeq(items, 1, n), t)
  IN IF params = <<>> \/ execFails THEN rows ELSE InsertOrReplace(rows, params)

\* the table after Put(ctx, items) at clock time t: nothing is written
\* when json.Unmarshal fails on a blob, when every blob is the null literal
\* or when the INSERT fails
PutRows(rows, items, t, execFails) ==
  LET params == PutParams(items, t)
      unmarshalFails == \E i \in DOMAIN items : items[i] = BadBlob
  IN IF unmarshalFails \/ params = <<>> \/ execFails
       THEN rows
       ELSE InsertOrReplace(rows, params)

\* whether Put(ctx, items) returns an error: json.Unmarshal fails on a blob,
\* or there is something to insert and the INSERT fails
PutFails(items, execFails) ==
  \/ \E i \in DOMAIN items : items[i] = BadBlob
  \/ execFails /\ \E i \in DOMAIN items : items[i] # NullBlob

FCInit ==
  /\ fcNow = 0
  /\ fcRows = EmptyMap
  /\ fcIds = <<>>
  /\ fcDid = {}
  /\ fcDo = <<>>
  /\ fcRemaining = <<>>
  /\ fcErr = FALSE
  /\ fcGot = FALSE

\* testClock.Advance(time.Minute)
FcClockAdvance ==
  /\ ~fcGot
  /\ fcNow < MaxAdvances * Minute
  /\ fcNow' = fcNow + Minute
  /\ UNCHANGED <<fcRows, fcIds, fcDid, fcDo, fcRemaining, fcErr, fcGot>>
  /\ UNCHANGED <<mcVars, wpVars, sfVars, stVars, csVars, cxVars, gaVars, rgVars, pgVars, bgVars, fgVars, cpVars, scVars>>

\* ItemFileCache.Put(ctx, items); execFails: the INSERT returns an error
ItemFileCache_Put(items, execFails) ==
  /\ ~fcGot
  /\ fcRows' = PutRows(fcRows, items, fcNow, execFails)
  /\ UNCHANGED <<fcNow, fcIds, fcDid, fcDo, fcRemaining, fcErr, fcGot>>
  /\ UNCHANGED <<mcVars, wpVars, sfVars, stVars, csVars, cxVars, gaVars, rgVars, pgVars, bgVars, fgVars, cpVars, scVars>>

\* ItemFileCache.Get(ctx, ids, do); o: the order in which the query returns
\* its rows; n: how many of them getRows handles before the query or the
\* iteration fails (all of them when nothing fails)
ItemFileCache_Get(ids) ==
  /\ ~fcGot
  /\ \E o \in RowOrders(SelectIds(fcRows, ids, fcNow)) : \E n \in 0..Len(o) :
       LET handled == SubSeq(o, 1, n)
           did == GetRowsDid(handled, ids)
       IN /\ fcIds' = ids
          /\ fcDid' = did
          /\ fcDo' = GetRowsDo(handled, ids, fcRows)
          /\ fcRemaining' = GetRemaining(ids, did, 1)
          /\ fcErr' = (n < Len(o))
  /\ fcGot' = TRUE
  /\ UNCHANGED <<fcNow, fcRows>>
  /\ UNCHANGED <<mcVars, wpVars, sfVars, stVars, csVars, cxVars, gaVars, rgVars, pgVars, bgVars, fgVars, cpVars, scVars>>

\* the caller of Get has looked at what Get returned and lets go of it
FcGetDone ==
  /\ fcGot
  /\ fcIds' = <<>>
  /\ fcDid' = {}
  /\ fcDo' = <<>>
  /\ fcRemaining' = <<>>
  /\ fcErr' = FALSE
  /\ fcGot' = FALSE
  /\ UNCHANGED <<fcNow, fcRows>>
  /\ UNCHANGED <<mcVars, wpVars, sfVars, stVars, csVars, cxVars, gaVars, rgVars, pgVars, bgVars, fgVars, cpVars, scVars>>

FCNext ==
  \/ FcClockAdvance
  \/ \E items \in {<<>>} \cup SeqsUpTo(Blobs, MaxPutLen) :
       \E execFails \in BOOLEAN : ItemFileCache_Put(items, execFails)
  \/ \E ids \in {<<>>} \cup SeqsUpTo(FcIds, MaxGetLen) : ItemFileCache_Get(ids)
  \/ FcGetDone

(***************************************************************************)
(* The cached getter stack built by buildClientInternal:                   *)
(*   BulkSingleFlightGetter with a MapCache and shouldCache, over          *)
(*   BulkTransformGetter(unmarshalItemStreamValue), over                   *)
(*   BulkItemFileCacheGetter with an ItemFileCache, over the bulk item     *)
(*   getter of the worker pool.                                            *)
(* The caller's part of a Get (cache lookups, addPending, the hand-over to *)
(* the worker pool) is one step; the fetches complete later, one by one,   *)
(* and the writer goroutine of the file cache getter runs on its own.      *)
(***************************************************************************)
\* Item.Type of an item made from a null body
NullBody == ""

\* WrapErrorInReadCloser: a reader whose Read returns the fetch error
ReadErr == [kind |-> "readerr", id |-> 0, time |-> 0]

\* what the fetch of key k can hand to the wrapper of the file cache getter
Responses(k) == {ItemBlob(k), NullBlob, BadBlob, ReadErr}

\* a ReadFrom that reports no error for any reader
ReadFromAlways(resp) == TRUE

\* a.ReadFrom(reader) returns no error: the bytes were read completely
ReadFromOk(resp) == resp # ReadErr


\* unmarshalItemStreamValue(id, reader) on a reader that yields resp
UnmarshalItemStreamValue(id, resp) ==
  IF resp.kind \in {"readerr", "bad"}
    THEN [ID |-> id, Type |-> "nil", Err |-> TRUE]
  ELSE IF resp.kind = "null"
    THEN [ID |-> id, Type |-> NullBody, Err |-> FALSE]
  ELSE IF resp.id # id
    THEN [ID |-> id, Type |-> "nil", Err |-> TRUE]
  ELSE [ID |-> id, Type |-> "story", Err |-> FALSE]

ShouldCacheUnlessErr(k, v) == ~v.Err
\* shouldCache of buildClientInternal
ShouldCache(k, v) == ~v.Err /\ v.Type # NullBody

\* no value has been delivered for the key yet
NoValue == [ID |-> 0, Type |-> "none", Err |-> FALSE]

\* the callback BulkSingleFlightGetter.Get gives to inner.Get, run at clock
\* time t on st (the cache, the pending map, and for the history the last
\* value per key): Put when shouldCache, removePending, the dos
SingleFlightCallback(st, k, v, t) ==
  [cache |-> IF ShouldCache(k, v) THEN MapCache_put(st.cache, k, v, t) ELSE st.cache,
   pending |-> [x \in DOMAIN st.pending \ {k} |-> st.pending[x]],
   last |-> [st.last EXCEPT ![k] = v]]

\* the rows ItemFileCache.Get hands to do, in order: each goes through the
\* transform and the callback of the single-flight getter
RECURSIVE ServeRows(_, _, _, _)
ServeRows(st, ids, rows, t) ==
  IF ids = <<>> THEN st
  ELSE ServeRows(
         SingleFlightCallback(st, Head(ids),
                              UnmarshalItemStreamValue(Head(ids), rows[Head(ids)].value),
                              t),
         Tail(ids), rows, t)

WrapperDoUnlessFull(k, resp, sent) ==
  IF sent THEN <<[key |-> k, data |-> resp]>> ELSE <<>>
\* the calls of do the callback of BulkItemFileCacheGetter.Get makes for the
\* response resp of key k, whether or not the put channel took the copy
WrapperDo(k, resp, sent) == <<[key |-> k, data |-> resp]>>

NoStackGet == [keys |-> <<>>, found |-> <<>>, toInner |-> <<>>, served |-> <<>>,
               last |-> [k \in Keys |-> NoValue], pend |-> {},
               err |-> FALSE, rest |-> <<>>]

NoDeliver == [key |-> 0, resp |-> NullBlob, sent |-> FALSE, sink |-> 0,
              do |-> <<>>]

NoPut == [items |-> <<>>, err |-> FALSE]

CXInit ==
  /\ ctxCancelled = FALSE
  /\ failures = FALSE

CSInit ==
  /\ csPending = EmptyMap
  /\ csInner = {}
  /\ putCh = <<>>
  /\ csGets = 0
  /\ csLast = [k \in Keys |-> NoValue]
  /\ csGet = NoStackGet
  /\ csDeliver = NoDeliver
  /\ csPut = NoPut

\* the clock of the client, read by MapCache as a time and by ItemFileCache
\* as Unix seconds; it advances a minute
StackClockAdvance ==
  /\ now < ClockStart + MaxStackTicks
  /\ now' = now + 1
  /\ fcNow' = fcNow + Minute
  /\ UNCHANGED <<lastPurge, m, mi, mcFound, mcRemaining, mcKeys, mcGetNow,
                 mcPuts, mcGetPuts>>
  /\ UNCHANGED <<fcRows, fcIds, fcDid, fcDo, fcRemaining, fcErr, fcGot>>
  /\ UNCHANGED <<csPending, csInner, putCh, csGets, csLast, csGet, csDeliver, csPut>>
  /\ UNCHANGED <<wpVars, sfVars, stVars, cxVars, gaVars, rgVars, pgVars, bgVars, fgVars, cpVars, scVars>>

\* BulkSingleFlightGetter.Get(ctx, keys, do) down to the worker pool:
\* MapCache.Get; addPending; ItemFileCache.Get on what remains, whose rows
\* come in some order and of which n are handled before the query fails (all
\* when it does not); the bulk item getter with what still remains, whose
\* DoWork accepts the first acc keys and returns the others
StackGet(keys) ==
  /\ csGets < MaxStackGets
  /\ LET r == AddPending([pending |-> csPending, remaining |-> <<>>],
                         MapCache_GetRemaining(now, keys), csGets + 1)
     IN \E o \in RowOrders(SelectIds(fcRows, r.remaining, fcNow)) :
        \E n \in 0..Len(o) :
          LET handled == SubSeq(o, 1, n)
              st == ServeRows([cache |-> [m |-> m, mi |-> mi, lastPurge |-> lastPurge],
                               pending |-> r.pending, last |-> csLast],
                              handled, fcRows, now)
              rest == GetRemaining(r.remaining, GetRowsDid(handled, r.remaining), 1)
          IN \E acc \in 0..Len(rest) :
               /\ m' = st.cache.m
               /\ mi' = st.cache.mi
               /\ lastPurge' = st.cache.lastPurge
               /\ csPending' = st.pending
               /\ csLast' = st.last
               /\ csInner' = csInner \cup {rest[i] : i \in 1..acc}
               /\ csGet' = [keys |-> keys,
                            found |-> MapCache_GetFound(now, keys),
                            toInner |-> r.remaining,
                            served |-> GetRowsDo(handled, r.remaining, fcRows),
                            last |-> csLast,
                            pend |-> DOMAIN csPending,
                            err |-> n < Len(o),
                            rest |-> rest]
  /\ csGets' = csGets + 1
  /\ UNCHANGED <<now, mcFound, mcRemaining, mcKeys, mcGetNow, mcPuts, mcGetPuts>>
  /\ UNCHANGED <<putCh, csDeliver, csPut>>
  /\ UNCHANGED <<fcVars, wpVars, sfVars, stVars, cxVars, gaVars, rgVars, pgVars, bgVars, fgVars, cpVars, scVars>>

\* a worker has fetched key k and calls the callback of
\* BulkItemFileCacheGetter.Get with a reader that yields resp: a.ReadFrom,
\* the copy b, trySend of a on the put channel and the sink when it is full,
\* then do with b, which is the transform and the callback of the
\* single-flight getter
InnerDeliver(k, resp) ==
  /\ k \in csInner
  /\ LET read == ReadFromOk(resp)
         s == IF read THEN TrySend(putCh, PutChCap, resp)
                      ELSE [ok |-> FALSE, ch |-> putCh]
         dos == WrapperDo(k, resp, s.ok)
         st == IF dos = <<>>
                 THEN [cache |-> [m |-> m, mi |-> mi, lastPurge |-> lastPurge],
                       pending |-> csPending, last |-> csLast]
                 ELSE SingleFlightCallback(
                        [cache |-> [m |-> m, mi |-> mi, lastPurge |-> lastPurge],
                         pending |-> csPending, last |-> csLast],
                        k, UnmarshalItemStreamValue(k, dos[1].data), now)
     IN /\ putCh' = s.ch
        /\ m' = st.cache.m
        /\ mi' = st.cache.mi
        /\ lastPurge' = st.cache.lastPurge
        /\ csPending' = st.pending
        /\ csLast' = st.last
        /\ csDeliver' = [key |-> k, resp |-> resp, sent |-> s.ok,
                         sink |-> IF read /\ ~s.ok THEN 1 ELSE 0,
                         do |-> dos]
  /\ csInner' = csInner \ {k}
  /\ UNCHANGED <<now, mcFound, mcRemaining, mcKeys, mcGetNow, mcPuts, mcGetPuts>>
  /\ UNCHANGED <<csGets, csGet, csPut>>
  /\ UNCHANGED <<fcVars, wpVars, sfVars, stVars, cxVars, gaVars, rgVars, pgVars, bgVars, fgVars, cpVars, scVars>>

\* BulkItemFileCacheGetter.put: greedyRead takes j buffers off the put
\* channel and ItemFileCache.Put writes them; execFails: the INSERT fails
PutWriter(j, execFails) ==
  /\ j \in 1..Min(Len(putCh), PutBatchSize)
  /\ fcRows' = PutRows(fcRows, SubSeq(putCh, 1, j), fcNow, execFails)
  /\ putCh' = SubSeq(putCh, j + 1, Len(putCh))
  /\ csPut' = [items |-> SubSeq(putCh, 1, j),
               err |-> PutFails(SubSeq(putCh, 1, j), execFails)]
  /\ UNCHANGED <<fcNow, fcIds, fcDid, fcDo, fcRemaining, fcErr, fcGot>>
  /\ UNCHANGED <<csPending, csInner, csGets, csLast, csGet, csDeliver>>
  /\ UNCHANGED <<mcVars, wpVars, sfVars, stVars, cxVars, gaVars, rgVars, pgVars, bgVars, fgVars, cpVars, scVars>>

CSNext ==
  \/ StackClockAdvance
  \/ \E keys \in SeqsUpTo(Keys, MaxKeys) : StackGet(keys)
  \/ \E k \in Keys : \E resp \in Responses(k) : InnerDeliver(k, resp)
  \/ \E j \in 1..PutBatchSize : \E execFails \in BOOLEAN : PutWriter(j, execFails)

(***************************************************************************)
(* The scan command of hn: scanCmd computes the range, runScan walks it    *)
(* with SearchOrdered, whose accumulator is called on the ids in the order *)
(* they were given and appended.                                           *)
(***************************************************************************)
\* the values of --continue-at: none, or an id
ContinueAts == {ContinueAtStart} \cup (1..(MaxScanItem + 2))

\* remaining in scanCmd before the range is computed, with an output file
\* that holds no line
ScanLimit(limit) == IF limit = 0 THEN MathMaxInt ELSE limit

\* from in scanCmd
ScanFrom(continueAt, ascending, maxItem) ==
  IF continueAt = ContinueAtStart THEN (IF ascending THEN 1 ELSE maxItem)
  ELSE continueAt

\* to in scanCmd
ScanTo(from, remaining, ascending, maxItem) ==
  IF ascending THEN from + Min(remaining, (maxItem + 1) - from)
  ELSE Max(1, from - remaining)

\* initializeScanIDs: the ids of the first window
ScanWindow(from, ascending) ==
  [n \in 1..(MaxInFlight * ScanWindowMultipliers) |->
     IF ascending THEN from + (n - 1) ELSE from - (n - 1)]

\* the condition under which the accumulator of runScan returns the next id
ScanEnqueues(ascending, from, to) == (ascending /\ from <= to) \/ (from >= to)

SCInit ==
  /\ scPc = "none"
  /\ scArgs = [limit |-> 0, continueAt |-> ContinueAtStart, ascending |-> FALSE,
               maxItem |-> 0]
  /\ scFrom = 0
  /\ scTo = 0
  /\ scRemaining = 0
  /\ scIds = <<>>
  /\ scWritten = <<>>

\* hn scan --limit limit [--continue-at continueAt] [--asc] against an API
\* whose maxitem is maxItem: RunE of scanCmd, and runScan up to its call of
\* SearchOrdered
ScanCmd(limit, continueAt, ascending, maxItem) ==
  /\ scPc = "none"
  /\ scArgs' = [limit |-> limit, continueAt |-> continueAt, ascending |-> ascending,
                maxItem |-> maxItem]
  /\ LET from == ScanFrom(continueAt, ascending, maxItem)
         to == ScanTo(from, ScanLimit(limit), ascending, maxItem)
         ids == ScanWindow(from, ascending)
     IN IF from = to
          THEN /\ scPc' = "returned"
               /\ scFrom' = from
               /\ scTo' = to
               /\ UNCHANGED <<scRemaining, scIds>>
          ELSE /\ scPc' = "run"
               /\ scTo' = to
               /\ scRemaining' = Max(from - to, to - from)
               /\ scIds' = ids
               /\ scFrom' = IF ascending THEN from + Len(ids) ELSE from - Len(ids)
  /\ UNCHANGED scWritten
  /\ UNCHANGED <<mcVars, wpVars, sfVars, stVars, fcVars, csVars, cxVars, gaVars,
                 rgVars, pgVars, bgVars, fgVars, cpVars>>

\* SearchOrdered calls the accumulator of runScan with the next id in
\* order: the item is written, remaining is counted down, and the search
\* stops at 0 or goes on with the next id
ScanAcc ==
  /\ scPc = "run"
  /\ scIds # <<>>
  /\ scWritten' = Append(scWritten, Head(scIds))
  /\ scRemaining' = scRemaining - 1
  /\ IF scRemaining - 1 = 0
       THEN /\ scPc' = "returned"
            /\ scIds' = <<>>
            /\ UNCHANGED scFrom
     ELSE IF ScanEnqueues(scArgs.ascending, scFrom, scTo)
       THEN /\ scIds' = Append(Tail(scIds), scFrom)
            /\ scFrom' = IF scArgs.ascending THEN scFrom + 1 ELSE scFrom - 1
            /\ UNCHANGED scPc
     ELSE /\ scIds' = Tail(scIds)
          /\ UNCHANGED <<scPc, scFrom>>
  /\ UNCHANGED <<scArgs, scTo>>
  /\ UNCHANGED <<mcVars, wpVars, sfVars, stVars, fcVars, csVars, cxVars, gaVars,
                 rgVars, pgVars, bgVars, fgVars, cpVars>>

SCNext ==
  \/ /\ scPc = "none"
     /\ \E limit \in 0..MaxScanLimit : \E continueAt \in ContinueAts :
          \E ascending \in BOOLEAN : \E maxItem \in 1..MaxScanItem :
            ScanCmd(limit, continueAt, ascending, maxItem)
  \/ ScanAcc

(***************************************************************************)
(* BulkItemFileCacheGetter on its own, with its writer goroutine, and      *)
(* Client.Close, which runs the closers in the order buildClientInternal   *)
(* builds them: the file cache getter, the ItemFileCache, the worker pool. *)
(***************************************************************************)
\* what a read of the field g.ch can yield: Close writes g.ch = nil without
\* holding a lock, so a callback that runs after it may still see the
\* closed channel
ChannelSeen(state) == IF state = "nil" THEN {"nil", "closed"} ELSE {state}

\* a writer that leaves as soon as the channel is closed
WriterDoneOnClose(ch, state) == state # "open"

\* greedyRead yields !ok: the put channel is closed and drained
WriterDone(ch, state) == ch = <<>> /\ state # "open"

FGInit ==
  /\ fgCh = <<>>
  /\ fgChState = "open"
  /\ fgWriter = "run"
  /\ fgClose = "none"
  /\ fgCloses = 0
  /\ fgInner = [k \in Keys |-> 0]
  /\ fgFetches = 0
  /\ fgAccepted = <<>>
  /\ fgPuts = <<>>
  /\ fgPut = NoPut
  /\ fgQueued = 0
  /\ fgLost = 0

\* BulkItemFileCacheGetter.Get(ctx, errCh, keys, do), made before Close:
\* ItemFileCache.Get serves the rows it handles (all that are not stale
\* unless the query fails), and inner.Get takes what remains, of which the
\* worker pool accepts the first acc
FileCacheGetterGet(keys) ==
  /\ fgClose = "none"
  /\ \E handled \in SUBSET SelectIds(fcRows, keys, fcNow) :
       LET did == UNION {Indices(keys, id) : id \in handled}
           rest == GetRemaining(keys, did, 1)
       IN \E acc \in 0..Len(rest) :
            /\ fgFetches + acc <= MaxFetches
            /\ acc > 0
            /\ fgInner' = [k \in Keys |-> fgInner[k] + Count(SubSeq(rest, 1, acc), k)]
            /\ fgFetches' = fgFetches + acc
  /\ UNCHANGED <<fgCh, fgChState, fgWriter, fgClose, fgCloses, fgAccepted, fgPuts,
                 fgPut, fgQueued, fgLost>>
  /\ UNCHANGED <<mcVars, wpVars, sfVars, stVars, fcVars, csVars, cxVars, gaVars,
                 rgVars, pgVars, bgVars, cpVars, scVars>>

\* a worker has fetched key k and runs the callback of
\* BulkItemFileCacheGetter.Get with a reader that yields resp; seen is what
\* its read of g.ch yields.  A send on a closed channel panics: the
\* callback ends there and do is not called.
FileCacheGetterDeliver(k, resp, seen) ==
  /\ fgInner[k] > 0
  /\ seen \in ChannelSeen(fgChState)
  /\ fgInner' = [fgInner EXCEPT ![k] = @ - 1]
  /\ IF ~ReadFromOk(resp) \/ seen = "nil"
       THEN UNCHANGED <<fgCh, fgAccepted, fgLost>>
     ELSE IF seen = "closed"
       THEN /\ fgLost' = fgLost + 1
            /\ UNCHANGED <<fgCh, fgAccepted>>
     ELSE LET s == TrySend(fgCh, WriterChCap, resp)
          IN /\ fgCh' = s.ch
             /\ fgAccepted' = IF s.ok THEN Append(fgAccepted, resp) ELSE fgAccepted
             /\ UNCHANGED fgLost
  /\ UNCHANGED <<fgChState, fgWriter, fgClose, fgCloses, fgFetches, fgPuts, fgPut,
                 fgQueued>>
  /\ UNCHANGED <<mcVars, wpVars, sfVars, stVars, fcVars, csVars, cxVars, gaVars,
                 rgVars, pgVars, bgVars, cpVars, scVars>>

\* put: greedyRead takes j buffers off the put channel and ItemFileCache.Put
\* writes them; execFails: the INSERT fails
FileCacheGetterPut(j, execFails) ==
  /\ fgWriter = "run"
  /\ j \in 1..Min(Len(fgCh), WriterBatchSize)
  /\ fcRows' = PutRows(fcRows, SubSeq(fgCh, 1, j), fcNow, execFails)
  /\ fgCh' = SubSeq(fgCh, j + 1, Len(fgCh))
  /\ fgPuts' = Append(fgPuts, SubSeq(fgCh, 1, j))
  /\ fgPut' = [items |-> SubSeq(fgCh, 1, j),
               err |-> PutFails(SubSeq(fgCh, 1, j), execFails)]
  /\ UNCHANGED <<fgChState, fgWriter, fgClose, fgCloses, fgInner, fgFetches,
                 fgAccepted, fgQueued, fgLost>>
  /\ UNCHANGED <<fcNow, fcIds, fcDid, fcDo, fcRemaining, fcErr, fcGot>>
  /\ UNCHANGED <<mcVars, wpVars, sfVars, stVars, csVars, cxVars, gaVars, rgVars,
                 pgVars, bgVars, cpVars, scVars>>

\* put: greedyRead yields !ok, the loop breaks and wg.Done runs
FileCacheGetterWriterExit ==
  /\ fgWriter = "run"
  /\ WriterDone(fgCh, fgChState)
  /\ fgWriter' = "exited"
  /\ UNCHANGED <<fgCh, fgChState, fgClose, fgCloses, fgInner, fgFetches,
                 fgAccepted, fgPuts, fgPut, fgQueued, fgLost>>
  /\ UNCHANGED <<mcVars, wpVars, sfVars, stVars, fcVars, csVars, cxVars, gaVars,
                 rgVars, pgVars, bgVars, cpVars, scVars>>

\* Client.Close calls the first closer, BulkItemFileCacheGetter.Close:
\* g.ch != nil, close(g.ch), then g.wg.Wait
FileCacheGetterCloseBegin ==
  /\ fgClose = "none"
  /\ fgChState' = "closed"
  /\ fgClose' = "wait"
  /\ fgQueued' = Len(fgCh)
  /\ UNCHANGED <<fgCh, fgWriter, fgCloses, fgInner, fgFetches, fgAccepted, fgPuts,
                 fgPut, fgLost>>
  /\ UNCHANGED <<mcVars, wpVars, sfVars, stVars, fcVars, csVars, cxVars, gaVars,
                 rgVars, pgVars, bgVars, cpVars, scVars>>

\* BulkItemFileCacheGetter.Close: g.wg.Wait returns, g.ch = nil
FileCacheGetterCloseReturn ==
  /\ fgClose = "wait"
  /\ fgWriter = "exited"
  /\ fgChState' = "nil"
  /\ fgClose' = "getter"
  /\ fgCloses' = fgCloses + 1
  /\ UNCHANGED <<fgCh, fgWriter, fgInner, fgFetches, fgAccepted, fgPuts, fgPut,
                 fgQueued, fgLost>>
  /\ UNCHANGED <<mcVars, wpVars, sfVars, stVars, fcVars, csVars, cxVars, gaVars,
                 rgVars, pgVars, bgVars, cpVars, scVars>>

\* BulkItemFileCacheGetter.Close called again after it returned: g.ch is
\* nil and nothing is done
FileCacheGetterCloseAgain ==
  /\ fgChState = "nil"
  /\ fgCloses < MaxCloses
  /\ fgCloses' = fgCloses + 1
  /\ UNCHANGED <<fgCh, fgChState, fgWriter, fgClose, fgInner, fgFetches,
                 fgAccepted, fgPuts, fgPut, fgQueued, fgLost>>
  /\ UNCHANGED <<mcVars, wpVars, sfVars, stVars, fcVars, csVars, cxVars, gaVars,
                 rgVars, pgVars, bgVars, cpVars, scVars>>

\* Client.Close calls the second closer, ItemFileCache.Close: db.Close
ClientCloseCache ==
  /\ fgClose = "getter"
  /\ fgClose' = "cache"
  /\ UNCHANGED <<fgCh, fgChState, fgWriter, fgCloses, fgInner, fgFetches,
                 fgAccepted, fgPuts, fgPut, fgQueued, fgLost>>
  /\ UNCHANGED <<mcVars, wpVars, sfVars, stVars, fcVars, csVars, cxVars, gaVars,
                 rgVars, pgVars, bgVars, cpVars, scVars>>

\* Client.Close calls the last closer, WorkerPool.Close, which returns when
\* the workers have finished every accepted task
ClientClosePool ==
  /\ fgClose = "cache"
  /\ \A k \in Keys : fgInner[k] = 0
  /\ fgClose' = "returned"
  /\ UNCHANGED <<fgCh, fgChState, fgWriter, fgCloses, fgInner, fgFetches,
                 fgAccepted, fgPuts, fgPut, fgQueued, fgLost>>
  /\ UNCHANGED <<mcVars, wpVars, sfVars, stVars, fcVars, csVars, cxVars, gaVars,
                 rgVars, pgVars, bgVars, cpVars, scVars>>

FGNext ==
  \/ \E keys \in SeqsUpTo(Keys, MaxKeys) : FileCacheGetterGet(keys)
  \/ \E k \in Keys : \E resp \in Responses(k) : \E seen \in {"open", "closed", "nil"} :
       FileCacheGetterDeliver(k, resp, seen)
  \/ \E j \in 1..WriterBatchSize : \E execFails \in BOOLEAN :
       FileCacheGetterPut(j, execFails)
  \/ FileCacheGetterWriterExit
  \/ FileCacheGetterCloseBegin
  \/ FileCacheGetterCloseReturn
  \/ FileCacheGetterCloseAgain
  \/ ClientCloseCache
  \/ ClientClosePool

(***************************************************************************)
(* ItemStream used through Advanced(): the caller holds the id channel and *)
(* the result channel and sends, reads and closes as it likes.             *)
(***************************************************************************)
\* newItemStream starts the driver and Advanced() hands out the channels
RawStart ==
  /\ srch.pc = "none"
  /\ srch' = [NoSearch EXCEPT !.mode = "raw", !.pc = "raw"]
  /\ drvPc' = "read"
  /\ UNCHANGED <<idCh, idChClosed, resultCh, resultCloses, stErrCh, wg, accMore,
                 accStop, accErr, ids0, delivered, produced, errValues>>
  /\ UNCHANGED <<mcVars, wpVars, sfVars, extVars>>

\* the caller sends id on the id channel; ids0 keeps the ids sent
RawSend(id) ==
  /\ srch.pc = "raw"
  /\ ~idChClosed
  /\ Len(ids0) < MaxRawIds
  /\ SendReady(idCh, MaxInFlight)
  /\ idCh' = Append(idCh, id)
  /\ ids0' = Append(ids0, id)
  /\ UNCHANGED <<idChClosed, resultCh, resultCloses, stErrCh, drvPc, wg, srch,
                 accMore, accStop, accErr, delivered, produced, errValues>>
  /\ UNCHANGED <<mcVars, wpVars, sfVars, extVars>>

\* the caller receives one value from the result channel
RawRead ==
  /\ srch.pc = "raw"
  /\ resultCh # <<>>
  /\ resultCh' = Tail(resultCh)
  /\ UNCHANGED <<idCh, idChClosed, resultCloses, stErrCh, drvPc, wg, srch,
                 accMore, accStop, accErr, ids0, delivered, produced, errValues>>
  /\ UNCHANGED <<mcVars, wpVars, sfVars, extVars>>

\* the caller closes the id channel
RawClose ==
  /\ srch.pc = "raw"
  /\ ~idChClosed
  /\ idChClosed' = TRUE
  /\ UNCHANGED <<idCh, resultCh, resultCloses, stErrCh, drvPc, wg, srch,
                 accMore, accStop, accErr, ids0, delivered, produced, errValues>>
  /\ UNCHANGED <<mcVars, wpVars, sfVars, extVars>>

RawCaller ==
  \/ RawStart
  \/ \E id \in ItemIds : RawSend(id)
  \/ RawRead
  \/ RawClose

STRawNext ==
  \/ RawCaller
  \/ StreamDriver
  \/ StreamWorkers

(***************************************************************************)
(* Client.GetActive: the accumulator it gives to SearchUnordered, over a   *)
(* corpus of items.  The stream fetches every id sent on the id channel    *)
(* and yields the results in any order.                                    *)
(***************************************************************************)
\* the largest id of the corpus, and the maxID GetActive is called with
GaMaxID == MaxInFlight + 1 + MaxBelow

GaIds == 1..GaMaxID

\* what the API holds for an id: an item, a dead or a deleted item (a body
\* with "dead" or "deleted" set), or the null body; time is its "time" and
\* parent its "parent" (0: none)
BodyKinds == {"item", "dead", "deleted", "null"}

\* the corpora: time is non-decreasing in id, a parent is older than its kid
Corpora ==
  {c \in [GaIds -> [kind : BodyKinds, time : 1..MaxTime, parent : 0..(GaMaxID - 1)]] :
     /\ \A i \in GaIds :
          c[i].parent = 0 \/ (c[i].parent < i /\ c[i].parent >= i - MaxParentGap)
     /\ \A i, j \in GaIds : i <= j => c[i].time <= c[j].time}

\* the activeAfter arguments: 0 is older than every item, the others are
\* times of the corpus
ActiveAfters == 0..(MaxTime - 1)

\* unmarshalItem on the body of id: the null body gives the zero Item with
\* the ID and Type NullBody
UnmarshalItem(c, id) ==
  IF c[id].kind = "null"
    THEN [ID |-> id, Time |-> 0, Dead |-> FALSE, Deleted |-> FALSE, Parent |-> 0]
    ELSE [ID |-> id, Time |-> c[id].time, Dead |-> c[id].kind = "dead",
          Deleted |-> c[id].kind = "deleted", Parent |-> c[id].parent]

\* isActive of the accumulator
IsActive(item, after) == item.Time > after /\ ~item.Dead /\ ~item.Deleted

NextAboveZero(next, lkii) == next > 0
\* the loop condition of getActiveTryEnqueueNextID
NextAbove(next, lkii) == next > lkii

\* getActiveTryEnqueueNextID: the value of next afterwards and the ids
\* appended to moreIDs
RECURSIVE TryEnqueueNextID(_, _, _)
TryEnqueueNextID(next, lkii, qap) ==
  IF ~NextAbove(next, lkii) THEN [next |-> next, more |-> <<>>]
  ELSE IF next \in qap THEN TryEnqueueNextID(next - 1, lkii, qap)
  ELSE [next |-> next - 1, more |-> <<next>>]

TryEnqueueParentAgain(item, qap) ==
  IF item.Parent = 0
    THEN [qap |-> qap, more |-> <<>>]
    ELSE [qap |-> qap \cup {item.Parent}, more |-> <<item.Parent>>]

\* getActiveTryEnqueueParent: queuedAsParent afterwards and the ids appended
\* to moreIDs
TryEnqueueParent(item, qap) ==
  IF item.Parent = 0 \/ item.Parent \in qap
    THEN [qap |-> qap, more |-> <<>>]
    ELSE [qap |-> qap \cup {item.Parent}, more |-> <<item.Parent>>]

\* an accumulator that keeps active items only
AccKeepsActiveOnly(active, id, qap) == active

\* the accumulator goes on to all[id] = item: the item is active, or its
\* id is in queuedAsParent
AccKeeps(active, id, qap) == active \/ id \in qap

\* the accumulator of GetActive called with (id, item) in state st: the
\* state afterwards, the moreIDs it returns appended to ids
GetActiveAcc(st, id, item, after) ==
  LET active == IsActive(item, after)
      lkii == IF active THEN st.lkii ELSE Max(id, st.lkii)
  IN IF ~AccKeeps(active, id, st.qap)
       THEN [st EXCEPT !.lkii = lkii]
       ELSE LET p == TryEnqueueParent(item, st.qap)
                n == TryEnqueueNextID(st.next, lkii, p.qap)
                more == p.more \o n.more
            IN [lkii |-> lkii, qap |-> p.qap, next |-> n.next,
                all |-> st.all \cup {id},
                ids |-> st.ids \o more,
                handed |-> st.handed \cup
                           {[id |-> more[i], lkii |-> lkii,
                             recorded |-> more[i] \in p.qap] : i \in DOMAIN more},
                parents |-> [i \in GaIds |-> st.parents[i] + Count(p.more, i)]]

\* SearchUnordered: the loop over the items of one greedyRead
RECURSIVE GetActiveBatch(_, _, _, _)
GetActiveBatch(st, items, c, after) ==
  IF items = <<>> THEN st
  ELSE GetActiveBatch(GetActiveAcc(st, Head(items), UnmarshalItem(c, Head(items)), after),
                      Tail(items), c, after)

\* the orders in which the results at the positions P can arrive
ArrivalOrders(P) == RowOrders(P)

\* the sequence s without its positions in P
RECURSIVE Without(_, _, _)
Without(s, P, i) ==
  IF i > Len(s) THEN <<>>
  ELSE (IF i \in P THEN <<>> ELSE <<s[i]>>) \o Without(s, P, i + 1)

\* Item.FindRoot(ancestors) of the item id over the items of the ids all: the
\* id of the root, or 0 for ErrItemNotFound
RECURSIVE FindRoot(_, _, _)
FindRoot(c, all, id) ==
  LET parent == UnmarshalItem(c, id).Parent
  IN IF parent = 0 THEN id
     ELSE IF parent \notin all THEN 0
     ELSE FindRoot(c, all, parent)

\* ItemSet.GroupByRoot fails: FindRoot fails on one of the items
GroupByRootFails(c, all) == \E id \in all : FindRoot(c, all, id) = 0

GAInit ==
  /\ gaPc = "none"
  /\ gaCorpus = <<>>
  /\ gaAfter = 0
  /\ gaIds = <<>>
  /\ gaOut = <<>>
  /\ gaNext = 0
  /\ largestKnownInactiveID = 0
  /\ queuedAsParent = {}
  /\ gaAll = {}
  /\ gaHanded = {}
  /\ gaParents = [i \in GaIds |-> 0]

\* GetActive(ctx, maxID, activeAfter) up to the call of SearchUnordered
GetActiveStart(c, after) ==
  /\ gaPc = "none"
  /\ gaCorpus' = c
  /\ gaAfter' = after
  /\ LET ids == [i \in 1..(MaxInFlight + 1) |-> GaMaxID - MaxInFlight - 1 + i]
     IN /\ gaIds' = ids
        /\ gaNext' = ids[1] - 1
  /\ gaPc' = "send"
  /\ UNCHANGED <<gaOut, largestKnownInactiveID, queuedAsParent, gaAll, gaHanded,
                 gaParents>>
  /\ UNCHANGED <<mcVars, wpVars, sfVars, stVars, fcVars, csVars, cxVars, rgVars, pgVars, bgVars, fgVars, cpVars, scVars>>

\* SearchUnordered: the loop condition and trySendSlice; when the loop
\* ends nothing is outstanding, close(idCh) and searchDrain return, and
\* GetActive returns all
GetActiveSend ==
  /\ gaPc = "send"
  /\ IF ~UnorderedMore(gaIds, Len(gaOut))
       THEN /\ gaPc' = "returned"
            /\ UNCHANGED <<gaIds, gaOut>>
       ELSE LET sent == Min(Len(gaIds), MaxInFlight - Len(gaOut))
            IN /\ gaOut' = gaOut \o SubSeq(gaIds, 1, sent)
               /\ gaIds' = SubSeq(gaIds, sent + 1, Len(gaIds))
               /\ gaPc' = "read"
  /\ UNCHANGED <<gaCorpus, gaAfter, gaNext, largestKnownInactiveID, queuedAsParent,
                 gaAll, gaHanded, gaParents>>
  /\ UNCHANGED <<mcVars, wpVars, sfVars, stVars, fcVars, csVars, cxVars, rgVars, pgVars, bgVars, fgVars, cpVars, scVars>>

\* SearchUnordered: greedyRead returns the results of the outstanding ids
\* at the positions of o, in the order of o, and the accumulator runs on
\* each
GetActiveRead(o) ==
  /\ gaPc = "read"
  /\ o # <<>>
  /\ \A i \in DOMAIN o : o[i] \in DOMAIN gaOut
  /\ LET st == GetActiveBatch([lkii |-> largestKnownInactiveID,
                               qap |-> queuedAsParent, next |-> gaNext,
                               all |-> gaAll, ids |-> gaIds, handed |-> gaHanded,
                               parents |-> gaParents],
                              [i \in DOMAIN o |-> gaOut[o[i]]], gaCorpus, gaAfter)
     IN /\ largestKnownInactiveID' = st.lkii
        /\ queuedAsParent' = st.qap
        /\ gaNext' = st.next
        /\ gaAll' = st.all
        /\ gaIds' = st.ids
        /\ gaHanded' = st.handed
        /\ gaParents' = st.parents
  /\ gaOut' = Without(gaOut, {o[i] : i \in DOMAIN o}, 1)
  /\ gaPc' = "send"
  /\ UNCHANGED <<gaCorpus, gaAfter>>
  /\ UNCHANGED <<mcVars, wpVars, sfVars, stVars, fcVars, csVars, cxVars, rgVars, pgVars, bgVars, fgVars, cpVars, scVars>>

GANext ==
  \/ /\ gaPc = "none"
     /\ \E c \in Corpora : \E after \in ActiveAfters : GetActiveStart(c, after)
  \/ GetActiveSend
  \/ \E P \in SUBSET (DOMAIN gaOut) : \E o \in ArrivalOrders(P) : GetActiveRead(o)

(***************************************************************************)
(* ResourceGetter: a Getter of paths behind a MapCache keyed by path.  It  *)
(* uses the MapCache of the variables now, m, mi and lastPurge.            *)
(***************************************************************************)
\* the types a resource decodes into, and the decoded values
ResourceTypes == {"int", "slice"}

Resources == [type : ResourceTypes, val : 1..MaxResource]

\* the result arguments of Get: a value that is no pointer, or a pointer to
\* a variable of one of the types, which holds its zero value (val 0)
NonPointer == [ptr |-> FALSE, type |-> "int", val |-> 0]

Results ==
  {NonPointer} \cup [ptr : {TRUE}, type : ResourceTypes, val : {0}]

NoFetch == [at |-> 0, value |-> [type |-> "none", val |-> 0]]

NoResourceGet ==
  [path |-> 0, result |-> NonPointer, out |-> NonPointer, err |-> "none",
   called |-> FALSE, now |-> 0, fetched |-> NoFetch, remote |-> NoFetch.value,
   cache |-> <<>>, hit |-> FALSE]

TypeCheckPointerOnly(res, v) == res.ptr
\* getResourceFromCache: the result is a pointer, and a pointer to the type
\* of the cached value
TypeAllowed(res, v) == res.ptr /\ res.type = v.type

GetResourceFromCacheMiss(t, path, res) == [ok |-> FALSE, err |-> "nil", out |-> res]

\* getResourceFromCache(path, result) at clock time t: whether the path is
\* in the cache, the error, and what the result points to afterwards
GetResourceFromCache(t, path, res) ==
  LET e == MapCache_get(t, path)
  IN IF ~e.ok THEN [ok |-> FALSE, err |-> "nil", out |-> res]
     ELSE IF ~TypeAllowed(res, e.value)
       THEN [ok |-> TRUE, err |-> "ErrTypeNotAllowed", out |-> res]
       ELSE [ok |-> TRUE, err |-> "nil", out |-> [res EXCEPT !.val = e.value.val]]

\* getResourceFromReader: json Decode of the body into the result; a body
\* of another type than the variable the result points to fails to decode
GetResourceFromReader(body, res) ==
  IF res.ptr /\ res.type # body.type
    THEN [err |-> "decode", out |-> res]
    ELSE [err |-> "nil",
          out |-> IF res.ptr THEN [res EXCEPT !.val = body.val] ELSE res]

RGInit ==
  /\ rgRemote = [p \in Keys |-> [type |-> "int", val |-> 1]]
  /\ rgFetched = [p \in Keys |-> NoFetch]
  /\ rgGet = NoResourceGet

\* the remote value of a path changes
RemoteChange(path, v) ==
  /\ rgGet = NoResourceGet
  /\ rgRemote[path] # v
  /\ rgRemote' = [rgRemote EXCEPT ![path] = v]
  /\ UNCHANGED <<rgFetched, rgGet>>
  /\ UNCHANGED <<mcVars, wpVars, sfVars, stVars, fcVars, csVars, cxVars, gaVars, pgVars, bgVars, fgVars, cpVars, scVars>>

\* ResourceGetter.Get(ctx, path, result); getterFails: the underlying
\* getter returns an error
ResourceGetter_Get(path, res, getterFails) ==
  /\ rgGet = NoResourceGet
  /\ UNCHANGED <<now, mcFound, mcRemaining, mcKeys, mcGetNow, mcPuts, mcGetPuts,
                 rgRemote>>
  /\ UNCHANGED <<wpVars, sfVars, stVars, fcVars, csVars, cxVars, gaVars, pgVars, bgVars, fgVars, cpVars, scVars>>
  /\ LET c == GetResourceFromCache(now, path, res)
         d == GetResourceFromReader(rgRemote[path], res)
         get == [NoResourceGet EXCEPT !.path = path, !.result = res, !.now = now,
                                      !.fetched = rgFetched[path],
                                      !.remote = rgRemote[path],
                                      !.cache = <<m, mi, lastPurge>>,
                                      !.hit = c.ok]
     IN IF c.err # "nil" \/ c.ok
          THEN /\ rgGet' = [get EXCEPT !.err = c.err, !.out = c.out]
               /\ UNCHANGED <<m, mi, lastPurge, rgFetched>>
        ELSE IF getterFails
          THEN /\ rgGet' = [get EXCEPT !.err = "getter get failed", !.out = res,
                                       !.called = TRUE]
               /\ UNCHANGED <<m, mi, lastPurge, rgFetched>>
        ELSE IF d.err # "nil"
          THEN /\ rgGet' = [get EXCEPT !.err = d.err, !.out = d.out, !.called = TRUE]
               /\ UNCHANGED <<m, mi, lastPurge, rgFetched>>
        ELSE IF ~res.ptr
          THEN /\ rgGet' = [get EXCEPT !.err = "ErrTypeNotAllowed", !.out = d.out,
                                       !.called = TRUE]
               /\ UNCHANGED <<m, mi, lastPurge, rgFetched>>
        ELSE LET put == MapCache_put([m |-> m, mi |-> mi, lastPurge |-> lastPurge],
                                     path, [type |-> d.out.type, val |-> d.out.val], now)
             IN /\ m' = put.m
                /\ mi' = put.mi
                /\ lastPurge' = put.lastPurge
                /\ rgFetched' = [rgFetched EXCEPT
                                   ![path] = [at |-> now, value |-> rgRemote[path]]]
                /\ rgGet' = [get EXCEPT !.err = "nil", !.out = d.out, !.called = TRUE]

\* the caller of Get has looked at what Get returned and lets go of it
ResourceGetDone ==
  /\ rgGet # NoResourceGet
  /\ rgGet' = NoResourceGet
  /\ UNCHANGED <<rgRemote, rgFetched>>
  /\ UNCHANGED <<mcVars, wpVars, sfVars, stVars, fcVars, csVars, cxVars, gaVars, pgVars, bgVars, fgVars, cpVars, scVars>>

\* testClock.Advance between two calls of Get
ResourceClockAdvance ==
  /\ rgGet = NoResourceGet
  /\ ClockAdvance

RGNext ==
  \/ ResourceClockAdvance
  \/ ResourceGetDone
  \/ \E path \in Keys : \E v \in Resources : RemoteChange(path, v)
  \/ \E path \in Keys : \E res \in Results : \E getterFails \in BOOLEAN :
       ResourceGetter_Get(path, res, getterFails)

(***************************************************************************)
(* TestMapCache_Purging: a MapCache with a ttl of keyCount - 1 seconds,    *)
(* keyCount keys put one per second, then rounds of Get of all keys, Put   *)
(* of the expired key and a clock advance of one second.                   *)
(***************************************************************************)
PurgeKeyCount == 10

PurgeTTL == PurgeKeyCount - 1

\* the loop runs while i seconds < 3 * ttl
PurgeRounds == 3 * PurgeTTL

\* keys[i] = i
PurgeKeys == [i \in 1..PurgeKeyCount |-> i - 1]

PurgeExpiredOneLater(t, added) == t - added > PurgeTTL + 1
\* now.Sub(e.added) > c.ttl with the ttl of the test
PurgeExpired(t, added) == t - added > PurgeTTL

PurgeRotateDueOneLater(t, lp) == t - lp > PurgeTTL + 1
\* now.Sub(c.lastPurge) > c.ttl with the ttl of the test
PurgeRotateDue(t, lp) == t - lp > PurgeTTL

\* get of the test's cache c at clock time t
PurgeCacheGet(c, t, k) ==
  LET e == MapCache_entry(c.m[(c.mi + 1) % 2], c.m[c.mi], k)
  IN MapCache_result(e, PurgeExpired(t, e.added))

\* MapCache.Get(keys) of the test's cache: the keys found, the keys remaining
PurgeFound(c, t) == SelectSeq(PurgeKeys, LAMBDA k : PurgeCacheGet(c, t, k).ok)

PurgeRemaining(c, t) == SelectSeq(PurgeKeys, LAMBDA k : ~PurgeCacheGet(c, t, k).ok)

PGInit ==
  /\ pgNow = PurgeTTL + 1
  /\ pgCache = [m |-> [i \in 0..1 |-> EmptyMap], mi |-> 0, lastPurge |-> ZeroTime]
  /\ pgPc = "fill"
  /\ pgI = 0
  /\ pgFound = <<>>
  /\ pgRemaining = <<>>
  /\ pgOs = 0
  /\ pgNs = 0

\* the first loop: cache.Put(i, i)
PurgeFillPut ==
  /\ pgPc = "fill"
  /\ pgCache' = MapCache_putWith(pgCache, PurgeRotateDue(pgNow, pgCache.lastPurge), pgI, pgI,
                                 pgNow)
  /\ pgPc' = "fillAdvance"
  /\ UNCHANGED <<pgNow, pgI, pgFound, pgRemaining, pgOs, pgNs>>
  /\ UNCHANGED <<mcVars, wpVars, sfVars, stVars, fcVars, csVars, cxVars, gaVars, rgVars, bgVars, fgVars, cpVars, scVars>>

\* the first loop: clock.Advance(1 * time.Second) and the loop condition
PurgeFillAdvance ==
  /\ pgPc = "fillAdvance"
  /\ pgNow' = pgNow + 1
  /\ IF pgI + 1 < PurgeKeyCount
       THEN pgI' = pgI + 1 /\ pgPc' = "fill"
       ELSE pgI' = 0 /\ pgPc' = "get"
  /\ UNCHANGED <<pgCache, pgFound, pgRemaining, pgOs, pgNs>>
  /\ UNCHANGED <<mcVars, wpVars, sfVars, stVars, fcVars, csVars, cxVars, gaVars, rgVars, bgVars, fgVars, cpVars, scVars>>

\* the second loop: its condition, cache.Get(keys) and the test of the
\* lengths, which ends the test when it fails
PurgeGet ==
  /\ pgPc = "get"
  /\ IF pgI < PurgeRounds
       THEN LET f == PurgeFound(pgCache, pgNow)
                nf == PurgeRemaining(pgCache, pgNow)
            IN /\ pgFound' = f
               /\ pgRemaining' = nf
               /\ pgPc' = IF Len(f) # PurgeKeyCount - 1 \/ Len(nf) # 1
                            THEN "failed" ELSE "put"
       ELSE /\ pgPc' = "done"
            /\ UNCHANGED <<pgFound, pgRemaining>>
  /\ UNCHANGED <<pgNow, pgCache, pgI, pgOs, pgNs>>
  /\ UNCHANGED <<mcVars, wpVars, sfVars, stVars, fcVars, csVars, cxVars, gaVars, rgVars, bgVars, fgVars, cpVars, scVars>>

\* the second loop: cache.Put(nf[0], nf[0])
PurgePut ==
  /\ pgPc = "put"
  /\ pgCache' = MapCache_putWith(pgCache, PurgeRotateDue(pgNow, pgCache.lastPurge),
                                 pgRemaining[1], pgRemaining[1], pgNow)
  /\ pgPc' = "advance"
  /\ UNCHANGED <<pgNow, pgI, pgFound, pgRemaining, pgOs, pgNs>>
  /\ UNCHANGED <<mcVars, wpVars, sfVars, stVars, fcVars, csVars, cxVars, gaVars, rgVars, bgVars, fgVars, cpVars, scVars>>

\* the second loop: clock.Advance, the maxima of len(old()) and len(new())
PurgeAdvance ==
  /\ pgPc = "advance"
  /\ pgNow' = pgNow + 1
  /\ pgOs' = Max(Cardinality(DOMAIN pgCache.m[pgCache.mi]), pgOs)
  /\ pgNs' = Max(Cardinality(DOMAIN pgCache.m[(pgCache.mi + 1) % 2]), pgNs)
  /\ pgI' = pgI + 1
  /\ pgPc' = "get"
  /\ UNCHANGED <<pgCache, pgFound, pgRemaining>>
  /\ UNCHANGED <<mcVars, wpVars, sfVars, stVars, fcVars, csVars, cxVars, gaVars, rgVars, bgVars, fgVars, cpVars, scVars>>

PGNext ==
  \/ PurgeFillPut
  \/ PurgeFillAdvance
  \/ PurgeGet
  \/ PurgePut
  \/ PurgeAdvance

Init == MCInit /\ WPInit /\ SFInit /\ STInit /\ FCInit /\ CSInit /\ CXInit /\ GAInit /\ RGInit /\ PGInit /\ BGInit /\ FGInit /\ CPInit /\ SCInit

SpecMapCache == Init /\ [][MCNext]_vars

SpecMapCachePuts == Init /\ [][CPNext]_vars

SpecWorkerPool == Init /\ [][WPNext]_vars

\* the worker pool with a queue that holds more than one task
InitQueue ==
  /\ MCInit /\ WPQInit /\ SFInit /\ STInit /\ FCInit /\ CSInit /\ CXInit /\ GAInit
  /\ RGInit /\ PGInit /\ BGInit /\ FGInit /\ CPInit /\ SCInit

SpecWorkerPoolQueue == InitQueue /\ [][WPNext]_vars

SpecGetters == Init /\ [][SFNext]_vars

SpecStream == Init /\ [][STNext]_vars

SpecStreamRaw == Init /\ [][STRawNext]_vars

SpecStreamAcc == Init /\ [][STAccNext]_vars

SpecStreamCancel == Init /\ [][STCancelNext]_vars

SpecGetActive == Init /\ [][GANext]_vars

SpecResourceGetter == Init /\ [][RGNext]_vars

SpecPurging == Init /\ [][PGNext]_vars

SpecScan == Init /\ [][SCNext]_vars

SpecFileCacheGetter == Init /\ [][FGNext]_vars

SpecBulkGetter == Init /\ [][BGNext]_vars

SpecFileCache == Init /\ [][FCNext]_vars

SpecCacheStack == Init /\ [][CSNext]_vars

\* the goroutines of the stream keep running: the driver, the workers and
\* the caller of the search are each scheduled while they can take a step
SpecStreamFair ==
  /\ Init
  /\ [][STNext]_vars
  /\ WF_vars(StreamDriver)
  /\ WF_vars(StreamWorkers)
  /\ WF_vars(StreamConsumer)

(***************************************************************************)
(* Claims about WorkerPool and DoWork                                      *)
(***************************************************************************)
\* how often item ix of call c sits in the queue
InQueue(c, ix) ==
  Cardinality({j \in DOMAIN workCh : workCh[j].c = c /\ workCh[j].ix = ix})

\* nothing is queued and no callback is running
PoolQuiescent == workCh = <<>> /\ \A w \in Workers : worker[w].pc # "run"

\* C2: DoWork enqueues the items in order; the items accepted are a prefix
\* of works, each queued or invoked exactly once and never twice; the items
\* from the refused one on are never queued or invoked and are exactly the
\* slice returned (empty when nothing is refused); once the pool is
\* quiescent every accepted item's callback has run exactly once.
C2_DoWorkContract ==
  \A c \in Calls :
    /\ \A ix \in 1..MaxWorks :
         IF ix <= accepted[c]
           THEN /\ started[<<c, ix>>] + InQueue(c, ix) = 1
                /\ finished[<<c, ix>>] <= started[<<c, ix>>]
                /\ PoolQuiescent => finished[<<c, ix>>] = 1
           ELSE /\ started[<<c, ix>>] = 0
                /\ InQueue(c, ix) = 0
    /\ \A j1, j2 \in DOMAIN workCh :
         (j1 < j2 /\ workCh[j1].c = c /\ workCh[j2].c = c)
           => workCh[j1].ix < workCh[j2].ix
    /\ \A j \in DOMAIN workCh :
         workCh[j].c = c => workCh[j].work = dw[c].works[workCh[j].ix]
    /\ dw[c].pc = "done" =>
         /\ accepted[c] <= Len(dw[c].works)
         /\ dw[c].ret = SubSeq(dw[c].works, accepted[c] + 1, Len(dw[c].works))

\* a DoWork call was refused after it had queued an item, and the pool has
\* since run every accepted callback
C2_Witness ==
  \E c \in Calls :
    /\ dw[c].pc = "done"
    /\ accepted[c] >= 1
    /\ dw[c].ret # <<>>
    /\ PoolQuiescent
    /\ \A ix \in 1..accepted[c] : finished[<<c, ix>>] = 1

\* C3: when WorkerPool.Close has returned, the callback of every task DoWork
\* accepted has returned, and nothing is left in the queue.
C3_CloseWaitsForAccepted ==
  closePc = "returned" =>
    /\ workCh = <<>>
    /\ \A c \in Calls : \A ix \in 1..MaxWorks :
         ix <= accepted[c] => finished[<<c, ix>>] = 1

\* Close was called while a task was queued and another was running, and
\* has returned
C3_Witness == closePc = "returned" /\ closeBusy

(***************************************************************************)
(* Claims about the bulk getters                                           *)
(***************************************************************************)
\* every Get has returned, nothing is queued and no fetch is running
SFQuiescent ==
  /\ \A c \in GetCalls : dw[c].pc # "send"
  /\ PoolQuiescent

\* how often the do of Get call c was invoked for key k
Invocations(c, k) == Cardinality({j \in DOMAIN sfDone[c] : sfDone[c][j].key = k})

\* how many fetches of key k are queued or running
Fetches(k) ==
  Cardinality({j \in DOMAIN workCh : workCh[j].work = k})
  + Cardinality({w \in Workers : worker[w].pc = "run" /\ worker[w].task.work = k})

\* C1: once all work of a Get call has finished, the number of do
\* invocations made for the call plus the length of the rejected list it
\* returned equals len(keys), duplicates counted separately.
C1_DoPlusRejectedIsKeys ==
  SFQuiescent =>
    \A c \in GetCalls :
      sfKeys[c] # <<>> => Len(sfDone[c]) + Len(dw[c].ret) = Len(sfKeys[c])

\* C4: at most one fetch of a key is queued or running at any time, and a
\* callback registered for k while the fetch of k was pending (its Get still
\* running, or the fetch queued or running) is invoked exactly once per
\* occurrence of k, every time with the same value.
C4_SingleFlight ==
  /\ \A k \in Keys : Fetches(k) <= 1
  /\ SFQuiescent =>
       \A c \in GetCalls : \A k \in sfCoalesced[c] :
         /\ Invocations(c, k) = Count(sfKeys[c], k)
         /\ \A j1, j2 \in DOMAIN sfDone[c] :
              (sfDone[c][j1].key = k /\ sfDone[c][j2].key = k)
                => sfDone[c][j1].value = sfDone[c][j2].value

\* C5: exactly one ErrDoPanic is offered on errCh per do invocation that
\* panicked, whatever the position of the panicking do among those
\* registered on the key.
C5_OneErrorPerPanic == errOffered = sfDoPanics

\* C6: a Get made for a key that inner had rejected before ends with one do
\* call or a new rejection per occurrence of the key.
C6_RetryAfterReject ==
  SFQuiescent =>
    \A c \in GetCalls : \A k \in sfRetried[c] :
      Invocations(c, k) + Count(dw[c].ret, k) = Count(sfKeys[c], k)

(***************************************************************************)
(* Claims about the item stream                                            *)
(***************************************************************************)
\* the id channel is closed and every id sent on it has been taken and has
\* produced exactly one value on resultCh
AllProduced ==
  /\ idChClosed
  /\ idCh = <<>>
  /\ \A n \in DOMAIN produced : produced[n].n = 1

\* no id taken from idCh ever has two values on resultCh; close(resultCh)
\* runs at most once, and when it has run every id sent has been taken and
\* has produced exactly one value
CloseOnlyAfterAllProduced ==
  /\ resultCloses <= 1
  /\ \A n \in DOMAIN produced : produced[n].n <= 1
  /\ resultCloses = 1 => AllProduced

RECURSIVE ReturnedMore(_)
ReturnedMore(s) ==
  IF s = <<>> THEN <<>> ELSE accMore[Head(s)] \o ReturnedMore(Tail(s))

\* s is a prefix of t
IsPrefix(s, t) == Len(s) <= Len(t) /\ SubSeq(t, 1, Len(s)) = s

\* C8: in SearchOrdered the sequence of ids passed to acc is at every moment
\* a prefix of ids followed by the moreIds lists acc returned, in the order
\* they were returned.
C8_OrderedPrefix ==
  srch.mode = "ordered" => IsPrefix(delivered, ids0 \o ReturnedMore(delivered))

\* a SearchOrdered returned nil after a result had arrived ahead of the
\* frontier and after acc was handed an id that came from a moreIds list
C8_Witness ==
  /\ srch.mode = "ordered"
  /\ srch.pc = "returned"
  /\ srch.ret = "nil"
  /\ srch.waited
  /\ Len(delivered) > Len(ids0)
  /\ Len(ids0) > 1

\* C9: in SearchUnordered with an acc that always keeps going and no error
\* value on the stream, acc is never invoked more often for an id than the
\* id occurs in ids and the returned moreIds, and when the search has
\* returned it was invoked exactly once per occurrence and the result is nil.
C9_UnorderedExactlyOnce ==
  (srch.mode = "unordered" /\ accStop = 0 /\ ~errValues) =>
    LET all == ids0 \o ReturnedMore(delivered)
    IN /\ \A id \in ItemIds : Count(delivered, id) <= Count(all, id)
       /\ srch.pc = "returned" =>
            /\ \A id \in ItemIds : Count(delivered, id) = Count(all, id)
            /\ srch.ret = "nil"

\* a SearchUnordered returned nil after delivering an id twice and an id
\* that came from a moreIds list
C9_Witness ==
  /\ srch.mode = "unordered"
  /\ accStop = 0
  /\ ~errValues
  /\ srch.pc = "returned"
  /\ srch.ret = "nil"
  /\ Len(delivered) > Len(ids0)
  /\ \E id \in ItemIds : Count(delivered, id) > 1

\* the Puts of key k among the first n Puts
PutsOf(k, n) == {v \in 1..n : mcPuts[v].key = k}

\* the latest of them (0 when there is none)
LatestPut(k, n) ==
  IF PutsOf(k, n) = {} THEN 0
  ELSE CHOOSE v \in PutsOf(k, n) : \A u \in PutsOf(k, n) : u <= v

\* C10: MapCache.Get never reports a key as found when now - added > TTL,
\* added being the clock time of the Put that stored the value found; a key
\* whose latest Put is exactly TTL old is still found.
C10_NoExpiredFound ==
  /\ \A i \in DOMAIN mcFound :
       /\ mcFound[i].Value \in PutsOf(mcFound[i].Key, mcGetPuts)
       /\ mcGetNow - mcPuts[mcFound[i].Value].at <= TTL
  /\ \A i \in DOMAIN mcKeys :
       LET v == LatestPut(mcKeys[i], mcGetPuts)
       IN (v # 0 /\ mcGetNow - mcPuts[v].at = TTL)
          => \E j \in DOMAIN mcFound : mcFound[j] = [Key |-> mcKeys[i], Value |-> v]

\* a Get found a value whose Put is exactly TTL old, after a rotation moved
\* it to the old generation
C10_Witness ==
  \E j \in DOMAIN mcFound :
    /\ mcGetNow - mcPuts[mcFound[j].Value].at = TTL
    /\ mcFound[j].Key \in DOMAIN MapCache_old
    /\ Len(mcRemaining) > 0

(***************************************************************************)
(* Claims about ItemFileCache                                              *)
(***************************************************************************)
\* the row of id is in the table and fresh enough for the configured
\* predicate refreshed < now - 150 at the clock's current time
FreshRow(id) ==
  id \in DOMAIN fcRows /\ fcRows[id].refreshed >= fcNow - StaleAfter

\* the table after Put of id 1 at t=60, of id 2 at t=120 and of id 3 at t=180
StaleTestRows ==
  /\ DOMAIN fcRows = {1, 2, 3}
  /\ fcRows[1].refreshed = 60
  /\ fcRows[2].refreshed = 120
  /\ fcRows[3].refreshed = 180

\* the ids do was invoked with by the Get that has returned
ServedIds == {fcDo[i].id : i \in DOMAIN fcDo}

\* C11: ItemFileCache.Get never invokes do for a row that the staleness
\* predicate refreshed < now - 150 marks stale at the clock's current time;
\* after Puts of id 1 at t=60, id 2 at t=120 and id 3 at t=180 a Get of
\* [1,2,3] at t=180 serves all three, and at t=240 it serves exactly {2,3}
\* and returns [1] as remaining.
C11_NoStaleRowServed ==
  fcGot =>
    /\ \A i \in DOMAIN fcDo : FreshRow(fcDo[i].id)
    /\ (StaleTestRows /\ fcIds = <<1, 2, 3>> /\ ~fcErr) =>
         /\ fcNow = 180 => (ServedIds = {1, 2, 3} /\ fcRemaining = <<>>)
         /\ fcNow = 240 => (ServedIds = {2, 3} /\ fcRemaining = <<1>>)

C11_Witness ==
  /\ fcGot /\ ~fcErr
  /\ StaleTestRows
  /\ fcIds = <<1, 2, 3>>
  /\ fcNow = 240
  /\ ServedIds = {2, 3}
  /\ fcRemaining = <<1>>

\* the ids of s that have no fresh row, in the order of s
RECURSIVE WithoutFreshRow(_)
WithoutFreshRow(s) ==
  IF s = <<>> THEN <<>>
  ELSE (IF FreshRow(Head(s)) THEN <<>> ELSE <<Head(s)>>) \o WithoutFreshRow(Tail(s))

\* how often do was invoked with id and the value of its row
DoCalls(id) ==
  Cardinality({i \in DOMAIN fcDo :
                 fcDo[i] = [id |-> id, data |-> fcRows[id].value]})

\* C13: a Get that returns without error has invoked do once for every
\* occurrence in ids of an id with a non-stale row (n occurrences, n calls)
\* and returns exactly the other occurrences in their input order; for every
\* Get the number of do calls plus len(remaining) is len(ids).
C13_GetOncePerOccurrence ==
  fcGot =>
    /\ Len(fcDo) + Len(fcRemaining) = Len(fcIds)
    /\ ~fcErr =>
         /\ \A id \in FcIds :
              IF FreshRow(id)
              THEN DoCalls(id) = Count(fcIds, id)
              ELSE id \notin ServedIds
         /\ fcRemaining = WithoutFreshRow(fcIds)

C13_Witness ==
  /\ fcGot /\ ~fcErr
  /\ \E id \in FcIds : Count(fcIds, id) = 2 /\ DoCalls(id) = 2
  /\ fcRemaining # <<>>

(***************************************************************************)
(* Claims about the rotation of MapCache                                   *)
(***************************************************************************)
\* the lastPurge before the latest rotation and the lastPurge after it, as
\* the Puts of the history produce them
RECURSIVE PurgeTimes(_, _, _)
PurgeTimes(puts, prev, lp) ==
  IF puts = <<>> THEN [prev |-> prev, last |-> lp]
  ELSE IF Head(puts).at - lp > TTL
         THEN PurgeTimes(Tail(puts), lp, Head(puts).at)
         ELSE PurgeTimes(Tail(puts), prev, lp)

PrevPurge == PurgeTimes(mcPuts, ZeroTime, ZeroTime).prev

\* the added times of the entries the generation g holds
AddedTimes(g) == {g[k].added : k \in DOMAIN g}

\* a Put has just rotated the generations
JustRotated == mcPuts # <<>> /\ mcPuts[Len(mcPuts)].at = now /\ lastPurge = now

\* some generation holds an entry older than 2 x TTL
HoldsOlderThanTwoTTL ==
  \E a \in AddedTimes(MapCache_old) \cup AddedTimes(MapCache_new) : now - a > 2 * TTL

\* C14 as stated: after the swap of a Put neither generation holds an entry
\* older than 2 x TTL, whatever the gaps between the Puts.
C14_SwapDropsOlderThanTwoTTL == JustRotated => ~HoldsOlderThanTwoTTL

\* C14: every Put whose clock delta since the last rotation exceeds the TTL
\* swaps the generations; the swap drops the entries stored up to the
\* rotation before it and keeps those stored since, so the new generation
\* holds entries stored since the last rotation, the old generation entries
\* stored between the last two rotations, and right after a swap no entry is
\* older than 2 x TTL when the rotation before it is at most 2 x TTL ago.
C14_SwapDropsOlderGeneration ==
  /\ lastPurge = PurgeTimes(mcPuts, ZeroTime, ZeroTime).last
  /\ (mcPuts # <<>> /\ mcPuts[Len(mcPuts)].at = now) => now - lastPurge <= TTL
  /\ \A a \in AddedTimes(MapCache_new) : a >= lastPurge
  /\ \A a \in AddedTimes(MapCache_old) : PrevPurge <= a /\ a <= lastPurge
  /\ (JustRotated /\ lastPurge - PrevPurge <= 2 * TTL) => ~HoldsOlderThanTwoTTL

C14_Witness ==
  /\ JustRotated
  /\ lastPurge - PrevPurge > 2 * TTL
  /\ \E a \in AddedTimes(MapCache_old) : now - a > 2 * TTL

(***************************************************************************)
(* Claims about the refusal of DoWork                                      *)
(***************************************************************************)
\* call c submitted n tasks, all were accepted, and they block: none of
\* their callbacks has returned
SubmittedBlocking(c, n) ==
  /\ dw[c].pc = "done"
  /\ Len(dw[c].works) = n
  /\ accepted[c] = n
  /\ \A ix \in 1..n : finished[<<c, ix>>] = 0

\* call c has returned all of its works, and none of them was queued or
\* had its callback invoked
RefusedWhole(c) ==
  /\ dw[c].pc = "done"
  /\ dw[c].ret = dw[c].works
  /\ \A ix \in DOMAIN dw[c].works : started[<<c, ix>>] = 0 /\ InQueue(c, ix) = 0

\* C15 as stated: after Q blocking tasks were submitted to a pool whose
\* queue capacity is Q, the next DoWork returns exactly its works and none
\* of their callbacks is invoked.
C15_RefusedAfterQSubmitted ==
  \A c1, c2 \in Calls :
    (c1 \in dw[c2].after /\ dw[c2].pc = "done" /\ SubmittedBlocking(c1, QueueCap))
      => RefusedWhole(c2)

\* C15: after Q + W blocking tasks were submitted to a pool of W workers
\* whose queue capacity is Q (every worker blocks in one and Q fill the
\* queue), the next DoWork returns exactly its works and none of their
\* callbacks is invoked.
C15_RefusedWhenQueueFull ==
  \A c1, c2 \in Calls :
    (/\ c1 \in dw[c2].after
     /\ dw[c2].pc = "done"
     /\ SubmittedBlocking(c1, QueueCap + Cardinality(Workers)))
      => RefusedWhole(c2)

C15_Witness ==
  /\ dw[2].pc = "done"
  /\ 1 \in dw[2].after
  /\ SubmittedBlocking(1, QueueCap + Cardinality(Workers))
  /\ Len(dw[2].works) = 3
  /\ RefusedWhole(2)

(***************************************************************************)
(* Claims about the cached getter stack                                    *)
(***************************************************************************)
\* the value is a null-body item or carries an error
Negative(v) == v.Err \/ v.Type = NullBody

\* the elements of the sequence s
Range(s) == {s[i] : i \in DOMAIN s}

C17_PutChannelFull ==
  [][\A k \in Keys :
       (k \in csInner /\ k \notin csInner' /\ csDeliver'.resp # ReadErr) =>
         /\ csDeliver'.key = k
         /\ csDeliver'.do = <<[key |-> k, data |-> csDeliver'.resp]>>
         /\ csLast'[k] = UnmarshalItemStreamValue(k, csDeliver'.resp)
         /\ fcRows' = fcRows
         /\ IF Len(putCh) >= PutChCap
              THEN csDeliver'.sink = 1 /\ putCh' = putCh
              ELSE csDeliver'.sink = 0 /\ putCh' = Append(putCh, csDeliver'.resp)
    ]_vars

\* a response arrived while the put channel was full: the sink ran and do
\* was invoked
C17_Witness ==
  /\ csDeliver.sink = 1
  /\ csDeliver.resp.kind = "item"
  /\ csDeliver.do # <<>>
  /\ Len(putCh) = PutChCap

\* the stream driver stands at one of its blocking sends on resultCh (the
\* refusal value of a rejected id, or the joined error) and resultCh is full
DriverBlockedOnSend ==
  \/ /\ drvPc = "get"
     /\ dw[DriverCall].pc = "done"
     /\ dw[DriverCall].ret # <<>>
     /\ Len(resultCh) >= MaxInFlight
  \/ /\ drvPc = "wait"
     /\ WaitDone(wg)
     /\ stErrCh # <<>>
     /\ Len(resultCh) >= MaxInFlight

\* the stream driver is inside its loop or at its end and can take no step
DriverStuck ==
  /\ drvPc \in {"get", "wait"}
  /\ ~ENABLED (DoWorkSend(DriverCall) \/ DriverRejected \/ DriverLoop \/ DriverClose)

C18_CancelNotReported ==
  (srch.pc = "returned" /\ ctxCancelled /\ ~failures) => srch.ret = "nil"

\* the ids GetActive has to return: the active items of the corpus
ActiveInCorpus ==
  {id \in GaIds : gaCorpus[id].kind = "item" /\ gaCorpus[id].time > gaAfter}

\* C19: GetActive returns every active item with id <= maxID, and with
\* every item it returns its parent, for every corpus whose time is
\* non-decreasing in id, dead, deleted and null-body items included.
C19_ActiveAndAncestors ==
  gaPc = "returned" =>
    /\ ActiveInCorpus \subseteq gaAll
    /\ \A id \in gaAll :
         UnmarshalItem(gaCorpus, id).Parent # 0 =>
           UnmarshalItem(gaCorpus, id).Parent \in gaAll

GetActiveRank ==
  2 * (Len(gaIds) + Len(gaOut) + gaNext + (GaMaxID - Cardinality(queuedAsParent)))
  + (IF gaPc = "send" THEN 1 ELSE 0)

\* C21: GetActive terminates on every corpus and every activeAfter: its
\* only blocking step, the read of a result, always has an outstanding id
\* to wait for, and every step after its start lowers a rank that is never
\* negative; next only decreases, and no id is enqueued as a parent more
\* than once.
C21_GetActiveTerminates ==
  /\ [](GetActiveRank >= 0)
  /\ [](gaPc = "read" => gaOut # <<>>)
  /\ [][gaPc # "none" => GetActiveRank' < GetActiveRank]_vars
  /\ [][gaPc # "none" => gaNext' <= gaNext]_vars
  /\ [](\A id \in GaIds : gaParents[id] <= 1)

\* GetActive returned every item of a corpus in which every item is active,
\* after next went down to 0 and a parent was enqueued
C21_Witness ==
  /\ gaPc = "returned"
  /\ \A id \in GaIds : IsActive(UnmarshalItem(gaCorpus, id), gaAfter)
  /\ gaAll = GaIds
  /\ gaNext = 0
  /\ \E id \in GaIds : gaParents[id] = 1

\* the last Get was given a pointer to a variable of the type of what the
\* path decodes into, and the underlying getter did not fail
ProperGet ==
  /\ rgGet # NoResourceGet
  /\ rgGet.result.ptr
  /\ rgGet.err # "getter get failed"

\* C22: a Get of a path that a Get fetched at most TTL ago returns the
\* value fetched then without calling the underlying getter, whatever the
\* remote holds now; a Get of a path fetched more than TTL ago (or never)
\* calls the getter and returns what the remote holds now.
C22_CachedWithinTTL ==
  ProperGet =>
    IF rgGet.fetched # NoFetch /\ rgGet.now - rgGet.fetched.at <= TTL
      THEN rgGet.result.type = rgGet.fetched.value.type =>
             /\ ~rgGet.called
             /\ rgGet.err = "nil"
             /\ rgGet.out.val = rgGet.fetched.value.val
      ELSE rgGet.result.type = rgGet.remote.type =>
             /\ rgGet.called
             /\ rgGet.err = "nil"
             /\ rgGet.out.val = rgGet.remote.val

\* a Get served the value fetched exactly TTL ago although the remote holds
\* another value by now
C22_Witness ==
  /\ ProperGet
  /\ rgGet.fetched # NoFetch
  /\ rgGet.now - rgGet.fetched.at = TTL
  /\ rgGet.remote # rgGet.fetched.value
  /\ rgGet.out.val = rgGet.fetched.value.val
  /\ ~rgGet.called

\* C24: a Get that finds the path in the cache and whose result is no
\* pointer to the type of the cached value returns ErrTypeNotAllowed, leaves
\* what the result points to as it was, does not call the underlying
\* getter and leaves the cache as it was.
C24_TypeMismatchOnHit ==
  (rgGet # NoResourceGet /\ rgGet.hit
     /\ ~(rgGet.result.ptr /\ rgGet.result.type = rgGet.fetched.value.type)) =>
    /\ rgGet.err = "ErrTypeNotAllowed"
    /\ rgGet.out = rgGet.result
    /\ ~rgGet.called
    /\ rgGet.cache = <<m, mi, lastPurge>>

\* a Get with a pointer to a slice found an int in the cache
C24_Witness ==
  /\ rgGet # NoResourceGet
  /\ rgGet.hit
  /\ rgGet.result.ptr
  /\ rgGet.result.type # rgGet.fetched.value.type
  /\ rgGet.err = "ErrTypeNotAllowed"

\* C23: in TestMapCache_Purging every Get of the second loop returns
\* keyCount - 1 = 9 found keys and 1 expired key, the old generation never
\* holds more than 10 entries and the new generation never more than 9, and
\* both maxima are reached (os = 10 and ns = 9 at the end).
C23_PurgingSizes ==
  /\ pgPc # "failed"
  /\ pgPc \in {"put", "advance"} =>
       Len(pgFound) = PurgeKeyCount - 1 /\ Len(pgRemaining) = 1
  /\ Cardinality(DOMAIN pgCache.m[pgCache.mi]) <= PurgeKeyCount
  /\ Cardinality(DOMAIN pgCache.m[(pgCache.mi + 1) % 2]) <= PurgeKeyCount - 1
  /\ pgPc = "done" => pgOs = PurgeKeyCount /\ pgNs = PurgeKeyCount - 1

\* the test has run all its rounds and has seen both maxima
C23_Witness ==
  /\ pgPc = "done"
  /\ pgI = PurgeRounds
  /\ pgOs = PurgeKeyCount
  /\ pgNs = PurgeKeyCount - 1

\* C25: SearchOrdered eventually returns for every id list, lists in which
\* an id occurs more than once included, for every order and timing in
\* which the results arrive.
C25_OrderedReturns == (srch.mode = "ordered") ~> (srch.pc = "returned")

\* C26: with every fetch completing and an acc that does not block, a
\* search that was started (SearchOrdered, SearchUnordered, and Get, which
\* is a SearchUnordered) eventually returns, for every interleaving.
C26_SearchReturns == (srch.pc # "none") ~> (srch.pc = "returned")

\* the ids sent to the stream whose result the search has not read yet: those
\* waiting on the id channel, those the driver took and has not answered,
\* and the results waiting on the result channel
InStream == Len(idCh) + wg + Len(resultCh)

\* C27: during SearchOrdered and SearchUnordered at most maxInFlight ids
\* are sent and not yet read back, the search's own count outstanding covers
\* them, neither channel holds more than maxInFlight elements, and the
\* driver's non-blocking send of a result never fails: errResultChannelFull
\* is never put on the driver's error channel.
C27_InFlightBounded ==
  /\ InStream <= MaxInFlight
  /\ srch.pc \in {"send", "read"} => InStream <= srch.outstanding
  /\ srch.outstanding <= MaxInFlight
  /\ Len(idCh) <= MaxInFlight
  /\ Len(resultCh) <= MaxInFlight
  /\ stErrCh = <<>>

\* a search has maxInFlight results waiting on a full result channel while
\* it still has ids to send
C27_Witness ==
  /\ srch.pc = "read"
  /\ Len(resultCh) = MaxInFlight
  /\ srch.outstanding = MaxInFlight
  /\ Len(srch.ids) > (IF srch.mode = "ordered" THEN MaxInFlight ELSE 0)

\* the reference map: what a map that keeps (value, added) of the latest
\* of the first n Puts per key answers for key k at clock time t
ReferenceGet(t, k, n) ==
  LET v == LatestPut(k, n)
  IN IF v # 0 /\ t - mcPuts[v].at <= TTL
       THEN [ok |-> TRUE, value |-> v]
       ELSE [ok |-> FALSE, value |-> 0]

\* the found and the remaining slice the reference map answers for keys
RECURSIVE ReferenceFound(_, _, _)
ReferenceFound(t, keys, n) ==
  IF keys = <<>> THEN <<>>
  ELSE LET r == ReferenceGet(t, Head(keys), n)
       IN (IF r.ok THEN <<[Key |-> Head(keys), Value |-> r.value]>> ELSE <<>>)
          \o ReferenceFound(t, Tail(keys), n)

RECURSIVE ReferenceRemaining(_, _, _)
ReferenceRemaining(t, keys, n) ==
  IF keys = <<>> THEN <<>>
  ELSE (IF ReferenceGet(t, Head(keys), n).ok THEN <<>> ELSE <<Head(keys)>>)
       \o ReferenceRemaining(t, Tail(keys), n)

\* C28: after any sequence of Puts and Gets under a non-decreasing clock
\* MapCache answers as the reference map does: at every moment get of
\* every key yields the value of the key's latest Put iff that Put is at
\* most TTL old, and the last Get returned the found and remaining slices
\* of the reference map.
C28_RefinesReferenceMap ==
  /\ \A k \in Keys : MapCache_get(now, k) = ReferenceGet(now, k, Len(mcPuts))
  /\ mcFound = ReferenceFound(mcGetNow, mcKeys, mcGetPuts)
  /\ mcRemaining = ReferenceRemaining(mcGetNow, mcKeys, mcGetPuts)

\* a Get, after a rotation that dropped a generation, found a key that was
\* put more than once and did not find a key whose latest Put had expired
C28_Witness ==
  /\ m[mi] # EmptyMap
  /\ \E k \in Keys : k \in DOMAIN MapCache_old /\ k \in DOMAIN MapCache_new
  /\ \E j \in DOMAIN mcFound : Cardinality(PutsOf(mcFound[j].Key, mcGetPuts)) > 1
  /\ \E j \in DOMAIN mcRemaining : LatestPut(mcRemaining[j], mcGetPuts) # 0
  /\ \E v \in DOMAIN mcPuts :
       /\ mcPuts[v].key \notin DOMAIN MapCache_old \cup DOMAIN MapCache_new

\* acc has returned keepGoing = false or an error for one of the results it
\* was invoked with
AccEnded ==
  \E i \in DOMAIN delivered : ~AccKeepGoing(delivered[i]) \/ AccFails(delivered[i])

\* C29: once acc has returned keepGoing = false or an error, it is not
\* invoked again (that invocation is the last one), the search has left its
\* loop, no further id is sent on the id channel, the id channel is closed
\* before the drain, the search returns only when the driver has closed the
\* result channel and it is empty, and the returned error is non-nil when
\* acc returned an error or the drain found an error value.
C29_StopIsFinal ==
  /\ [](\A i \in 1..(Len(delivered) - 1) :
          AccKeepGoing(delivered[i]) /\ ~AccFails(delivered[i]))
  /\ [](AccEnded => srch.pc \in {"close", "drain", "returned"})
  /\ [][AccEnded => /\ delivered' = delivered
                    /\ srch'.ids = srch.ids
                    /\ Len(idCh') <= Len(idCh)
                    /\ idCh' = SubSeq(idCh, Len(idCh) - Len(idCh') + 1, Len(idCh))]_vars
  /\ [](AccEnded /\ srch.pc \in {"drain", "returned"} => idChClosed)
  /\ [](srch.pc = "returned" => resultCloses > 0 /\ resultCh = <<>>)
  /\ [](srch.pc = "returned" /\ (\E i \in DOMAIN delivered : AccFails(delivered[i]))
          => srch.ret = "error")
  /\ [](srch.pc = "returned" /\ srch.errs => srch.ret = "error")

\* a search returned after its acc failed while ids were still unsent, and
\* the drain found an error value
C29_Witness ==
  /\ srch.pc = "returned"
  /\ delivered # <<>>
  /\ AccFails(delivered[Len(delivered)])
  /\ srch.ids # <<>>
  /\ srch.mode = "unordered"
  /\ srch.errs
  /\ srch.ret = "error"

\* the failure safeRunGetter reports for what the getter did
FailureOf(outcome) ==
  IF outcome = "error" THEN "getter failed"
  ELSE IF outcome = "panic" THEN "ErrGetterPanic"
  ELSE NoError

\* C30: for every key whose callback a worker has run, whether the getter
\* returned a value, returned an error or panicked, do was invoked exactly
\* once, with the value or with the failure wrapped as a value (a panic as
\* ErrGetterPanic); no failure is sent or offered on errCh, and the worker
\* is back in its loop.
C30_FailureGoesToDo ==
  /\ \A t \in TaskIds :
       IF bgOutcome[t] = "none" THEN bgDo[t] = <<>>
       ELSE /\ Len(bgDo[t]) = 1
            /\ finished[t] = 1
            /\ bgDo[t][1].err = FailureOf(bgOutcome[t])
            /\ bgOutcome[t] = "value" => bgDo[t][1].val = dw[t[1]].works[t[2]]
  /\ wpErrCh = <<>>
  /\ errOffered = 0
  /\ \A w \in Workers : worker[w].pc \in {"recv", "run"}

\* the getter has panicked for one key and failed for another, and a
\* worker on which a getter failed has finished a later task
C30_Witness ==
  /\ \E t \in TaskIds : bgOutcome[t] = "panic" /\ Len(bgDo[t]) = 1
  /\ \E t \in TaskIds : bgOutcome[t] = "error" /\ Len(bgDo[t]) = 1
  /\ \E w \in Workers : bgWorker[w] = "resumed"

(***************************************************************************)
(* Claims about panics in the worker pool                                  *)
(***************************************************************************)
\* the tasks whose callback has panicked: it finished, and the do of the
\* model panics on its payload
PanickedTasks ==
  {t \in Calls \X (1..MaxWorks) :
     /\ finished[t] = 1
     /\ t[2] <= Len(dw[t[1]].works)
     /\ DoPanics(dw[t[1]].works[t[2]])}

\* C31: a panic of a callback is recovered by the worker: every worker is
\* in its loop (receiving or running) until the queue is closed, one
\* ErrDoPanic is offered per panicked callback, errCh holds the offers up to
\* its capacity and the others are dropped, and a worker that is running a
\* callback can always finish it, whether errCh is full or not.
C31_PanicRecovered ==
  /\ \A w \in Workers : worker[w].pc \in {"recv", "run", "exit"}
  /\ \A w \in Workers : worker[w].pc = "exit" => wpClosed /\ workCh = <<>>
  /\ errOffered = Cardinality(PanickedTasks)
  /\ Len(wpErrCh) = Min(errOffered, ErrChCap)
  /\ \A i \in DOMAIN wpErrCh : wpErrCh[i] = "ErrDoPanic"
  /\ \A w \in Workers : worker[w].pc = "run" => ENABLED WorkerDone(w)

\* more callbacks have panicked than errCh holds, an error was dropped, and
\* every accepted task has finished all the same
C31_Witness ==
  /\ errOffered > ErrChCap
  /\ Len(wpErrCh) = ErrChCap
  /\ Cardinality(PanickedTasks) > ErrChCap
  /\ \A w \in Workers : worker[w].pc = "recv"
  /\ workCh = <<>>
  /\ \A c \in Calls : dw[c].pc = "done"
  /\ \A c \in Calls : \A ix \in 1..MaxWorks : ix <= accepted[c] => finished[<<c, ix>>] = 1

\* the row the writer stores for the blob e at clock time t
WrittenRow(e, t) == [refreshed |-> t, Time |-> e.time, value |-> e]

\* the row of key k exists and is not stale now
FreshStackRow(k) == k \in DOMAIN fcRows /\ ~Stale(fcRows[k], fcNow)

\* C32: a key that reaches the file cache getter and whose row is absent or
\* stale goes to the inner getter; the response read from the fetch is given
\* to do unchanged and the same bytes are queued for the writer (by trySend,
\* when the put channel has room); what the writer writes replaces the row
\* of the item's id with those bytes and refreshed = the time of the write,
\* and leaves the other rows alone; every row holds the bytes of a fetch of
\* its id; and a Get that reaches the file cache getter with a key whose
\* row is not stale, and whose query does not fail, has the row's bytes
\* served by do and does not hand the key to the inner getter.
C32_MissFetchedThenServed ==
  /\ [](\A id \in DOMAIN fcRows :
          fcRows[id].value = ItemBlob(id) /\ fcRows[id].refreshed <= fcNow)
  /\ [][\A k \in Keys :
          (k \in csInner /\ k \notin csInner' /\ csDeliver'.resp # ReadErr) =>
            /\ csDeliver'.do = <<[key |-> k, data |-> csDeliver'.resp]>>
            /\ Len(putCh) < PutChCap => putCh' = Append(putCh, csDeliver'.resp)]_vars
  /\ [][Len(putCh') < Len(putCh) =>
          \/ csPut'.err /\ fcRows' = fcRows
          \/ \A i \in 1..(Len(putCh) - Len(putCh')) :
               /\ putCh[i].kind = "item"
                    => /\ putCh[i].id \in DOMAIN fcRows'
                       /\ fcRows'[putCh[i].id] = WrittenRow(putCh[i], fcNow)
               /\ \A id \in DOMAIN fcRows' :
                    (\A j \in 1..(Len(putCh) - Len(putCh')) : putCh[j].id # id)
                      => id \in DOMAIN fcRows /\ fcRows'[id] = fcRows[id]]_vars
  /\ [][csGets' = csGets + 1 =>
          \A k \in Range(csGet'.toInner) :
            IF FreshStackRow(k)
              THEN ~csGet'.err =>
                     /\ k \notin Range(csGet'.rest)
                     /\ \E i \in DOMAIN csGet'.served :
                          csGet'.served[i] = [id |-> k, data |-> fcRows[k].value]
              ELSE /\ k \in Range(csGet'.rest)
                   /\ \A i \in DOMAIN csGet'.served : csGet'.served[i].id # k]_vars

\* a Get was served a row from the file cache that the writer had written
\* at an earlier time, and handed nothing to the inner getter
C32_Witness ==
  /\ csGet.served # <<>>
  /\ ~csGet.err
  /\ csGet.rest = <<>>
  /\ \E i \in DOMAIN csGet.served :
       /\ csGet.served[i].id \in DOMAIN fcRows
       /\ fcRows[csGet.served[i].id].refreshed < fcNow
       /\ fcRows[csGet.served[i].id].refreshed > 0

(***************************************************************************)
(* C33: BulkItemFileCacheGetter.Close returns only after the writer has    *)
(* exited, having passed every buffer the put channel accepted to          *)
(* ItemFileCache.Put, in the order accepted and in batches of one to       *)
(* putBatchSize buffers; a later Close changes nothing.                    *)
(***************************************************************************)
RECURSIVE PutsInOrder(_)
PutsInOrder(batches) ==
  IF batches = <<>> THEN <<>> ELSE Head(batches) \o PutsInOrder(Tail(batches))

C33_CloseDrainsWriter ==
  /\ [](fgCloses > 0 =>
          /\ fgWriter = "exited"
          /\ fgCh = <<>>
          /\ PutsInOrder(fgPuts) = fgAccepted)
  /\ [](\A i \in DOMAIN fgPuts : Len(fgPuts[i]) \in 1..WriterBatchSize)
  /\ [](PutsInOrder(fgPuts) \o fgCh = fgAccepted)
  /\ [][fgCloses > 0 /\ fgCloses' > fgCloses =>
          UNCHANGED <<fgCh, fgChState, fgWriter, fgAccepted, fgPuts, fgPut, fcRows>>]_vars

\* Close was called with two buffers waiting, the writer passed them to Put
\* as one batch, and Close has been called a second time
C33_Witness ==
  /\ fgCloses = MaxCloses
  /\ fgQueued >= 2
  /\ \E i \in DOMAIN fgPuts : Len(fgPuts[i]) = 2
  /\ Len(fgAccepted) = MaxFetches

(***************************************************************************)
(* C36: no callback of a fetch sends on the put channel after              *)
(* BulkItemFileCacheGetter.Close has closed it, so every key the worker    *)
(* pool accepted gets its do call also when Client.Close runs while        *)
(* fetches are still running; and ItemFileCache.Put is not called after    *)
(* ItemFileCache.Close.                                                    *)
(***************************************************************************)
C36_NoSendAfterClose == fgLost = 0

\* the part about the database: Put runs only before ItemFileCache.Close
C36_NoPutAfterDbClose ==
  [][fgPuts' # fgPuts => fgClose \in {"none", "wait"}]_vars

(***************************************************************************)
(* C37: a call of ItemFileCache.Put whose batch holds a blob that          *)
(* json.Unmarshal fails on returns an error and leaves every row as it     *)
(* was, also the rows of the valid blobs that precede the bad one.         *)
(***************************************************************************)
C37_PutAllOrNothing ==
  [][(fgPuts' # fgPuts /\ \E i \in DOMAIN fgPut'.items : fgPut'.items[i] = BadBlob)
       => fgPut'.err /\ fcRows' = fcRows]_vars

\* the last Put had a valid item blob followed by a bad one, failed, and
\* the item has no row
C37_Witness ==
  /\ Len(fgPut.items) = 2
  /\ fgPut.items[1] = ItemBlob(1)
  /\ fgPut.items[2] = BadBlob
  /\ fgPut.err
  /\ 1 \notin DOMAIN fcRows

(***************************************************************************)
(* C38: a response that cannot be read completely is given to do once, as  *)
(* a reader that yields the error; it is not offered to the put channel    *)
(* and not counted by the sink, so no buffer of the put channel and no row *)
(* of the file cache ever holds it.                                        *)
(***************************************************************************)
C38_ReadErrorNotCached ==
  /\ [](\A i \in DOMAIN putCh : putCh[i] # ReadErr)
  /\ [](\A id \in DOMAIN fcRows : fcRows[id].value # ReadErr)
  /\ [][\A k \in Keys :
         (k \in csInner /\ k \notin csInner' /\ csDeliver'.resp = ReadErr) =>
           /\ csDeliver'.key = k
           /\ csDeliver'.do = <<[key |-> k, data |-> ReadErr]>>
           /\ ~csDeliver'.sent
           /\ csDeliver'.sink = 0
           /\ putCh' = putCh
           /\ fcRows' = fcRows]_vars

\* an unreadable response was delivered while the put channel had room and
\* the key had a row, which was left as it was
C38_Witness ==
  /\ csDeliver.resp = ReadErr
  /\ csDeliver.key \in DOMAIN fcRows
  /\ csDeliver.do = <<[key |-> csDeliver.key, data |-> ReadErr]>>
  /\ Len(putCh) < PutChCap

(***************************************************************************)
(* C39: at most numWorkers callbacks of tasks run at a time, the queue     *)
(* never holds more than its capacity, and the workers take the tasks in   *)
(* the order DoWork enqueued them: a task is appended at the end of the    *)
(* queue and taken from its front, so the items of one DoWork call start   *)
(* in the order of its works slice.                                        *)
(***************************************************************************)
RunningTasks == {t \in TaskIds : started[t] > finished[t]}

C39_BoundedAndFifo ==
  /\ [](Cardinality(RunningTasks) <= Cardinality(Workers))
  /\ [](Len(workCh) <= queueCap)
  /\ [](\A c \in Calls : \A ix, jx \in 1..MaxWorks :
          (ix < jx /\ started[<<c, jx>>] > 0) => started[<<c, ix>>] > 0)
  /\ [][started' # started =>
          /\ workCh # <<>>
          /\ started' = [started EXCEPT ![<<Head(workCh).c, Head(workCh).ix>>] = @ + 1]
          /\ workCh' = Tail(workCh)]_vars
  /\ [][accepted' # accepted =>
          /\ Len(workCh') = Len(workCh) + 1
          /\ SubSeq(workCh', 1, Len(workCh)) = workCh]_vars

\* every worker runs a callback, the queue is full with two tasks of
\* different DoWork calls, and a task taken from a queue of two has started
C39_Witness ==
  /\ queueCap > 1
  /\ Len(workCh) = queueCap
  /\ workCh[1].c # workCh[2].c
  /\ Cardinality(RunningTasks) = Cardinality(Workers)
  /\ \A w \in Workers : worker[w].pc = "run"

(***************************************************************************)
(* C34: a key present in both generations of the MapCache has in the new   *)
(* generation an added time not earlier than in the old generation, also   *)
(* when Put is called from several goroutines, each reading the clock      *)
(* before it takes the lock.                                               *)
(***************************************************************************)
C34_NewNotOlder ==
  \A k \in DOMAIN MapCache_new \cap DOMAIN MapCache_old :
    MapCache_new[k].added >= MapCache_old[k].added

\* the second half: MapCache.get does not yield an entry while the other
\* generation holds a later, unexpired entry of the key
C34_GetYieldsLatest ==
  \A k \in DOMAIN MapCache_new \cap DOMAIN MapCache_old :
    ~(/\ MapCache_new[k].added < MapCache_old[k].added
      /\ ~Expired(now, MapCache_old[k].added)
      /\ MapCache_get(now, k).ok
      /\ MapCache_get(now, k).value = MapCache_new[k].value)

(***************************************************************************)
(* C35: when GetActive has returned, every returned item that has a parent *)
(* has its parent in the returned set, and GroupByRoot on the set does not *)
(* fail, whatever the order in which the results arrived.                  *)
(***************************************************************************)
C35_ClosedUnderParent ==
  gaPc = "returned" =>
    /\ \A id \in gaAll :
         UnmarshalItem(gaCorpus, id).Parent # 0 =>
           UnmarshalItem(gaCorpus, id).Parent \in gaAll
    /\ ~GroupByRootFails(gaCorpus, gaAll)

\* GetActive has returned an item whose parent is not active and has a
\* parent itself, so the set holds a chain of three
C35_Witness ==
  /\ gaPc = "returned"
  /\ \E id \in gaAll :
       LET p == UnmarshalItem(gaCorpus, id).Parent
       IN /\ p # 0
          /\ ~IsActive(UnmarshalItem(gaCorpus, p), gaAfter)
          /\ UnmarshalItem(gaCorpus, p).Parent # 0
          /\ FindRoot(gaCorpus, gaAll, id) \notin {0, id, p}

(***************************************************************************)
(* C40: hn scan writes a run of consecutive ids.  A descending scan that   *)
(* starts at id from with limit L (0: no limit) writes min(L, from) items, *)
(* the ids from, from - 1, ..., so an unlimited one ends with id 1; an     *)
(* ascending scan writes min(L, maxItem - from + 1) items, the ids from,   *)
(* from + 1, ..., none above maxItem.                                      *)
(***************************************************************************)
ScanStartId == ScanFrom(scArgs.continueAt, scArgs.ascending, scArgs.maxItem)

C40_ScanWritesRange ==
  scPc = "returned" =>
    IF scArgs.ascending
      THEN scWritten =
             [i \in 1..Min(ScanLimit(scArgs.limit), scArgs.maxItem - ScanStartId + 1) |->
                ScanStartId + (i - 1)]
      ELSE scWritten =
             [i \in 1..Min(ScanLimit(scArgs.limit), ScanStartId) |-> ScanStartId - (i - 1)]

\* what the code does: a descending scan writes min(L, from - 1) items and
\* never id 1; an ascending scan that starts at most one above maxItem
\* writes the ids of the claim
C40_ScanAsCoded ==
  scPc = "returned" =>
    IF scArgs.ascending
      THEN ScanStartId <= scArgs.maxItem + 1 =>
             scWritten =
               [i \in 1..Min(ScanLimit(scArgs.limit), scArgs.maxItem - ScanStartId + 1) |->
                  ScanStartId + (i - 1)]
      ELSE scWritten =
             [i \in 1..Min(ScanLimit(scArgs.limit), ScanStartId - 1) |->
                ScanStartId - (i - 1)]

\* SearchOrdered of runScan always has an id for the accumulator
C40_ScanHasIds == scPc = "run" => scIds # <<>> /\ scRemaining > 0

====
